---- MODULE Spec2Model ----
(***************************************************************************)
(* Verification model of the blender_claude addon: the main-thread bridge  *)
(* (bridge.py), the API-style and CLI-style generation workers and their   *)
(* owner-thread callbacks (operators.py), the tool dispatch boundary       *)
(* (tools.py) and the line decoder's cancellation path (cli.py).           *)
(*                                                                         *)
(* Two threads are modelled: the owner (main) thread, which runs the       *)
(* operators and the bridge's timer callback, and the one background       *)
(* generation thread.  Every step of the background thread is one action;  *)
(* the timer callback is split at each queue item, because the background  *)
(* thread keeps running while the owner thread drains the queue.           *)
(***************************************************************************)
EXTENDS Integers, Sequences, FiniteSets, TLC

(***************************************************************************)
(* Bounds of the model.                                                    *)
(***************************************************************************)
\* prefs.max_tool_iterations as configured for the run (the property allows 1..30)
MaxIterations == 2
\* events (API) or output lines (CLI) the session receives in all
MaxEvents == 2
\* enqueue operations (schedule, execute_on_main) of a run of the bridge alone
MaxWork == 3
\* calls of bridge.unregister in a run of the bridge alone
MaxUnregister == 2
\* text blocks the user keeps at a time in a run of the workspace alone
MaxTexts == 3
\* operations of the user and of external tools in a run of the workspace alone
MaxOps == 3
\* characters of a text block in a run of the edit tool alone
MaxLen == 3
\* lines of the event stream in a run of its decoder alone
MaxLines == 4
\* submissions of a prompt in a run over several prompts
MaxSubmits == 2

(***************************************************************************)
(* Program constants.                                                      *)
(***************************************************************************)
\* bridge.py:100  "processed < 50"
BatchLimit == 50

(***************************************************************************)
(* Values.                                                                 *)
(***************************************************************************)
\* tools.py:159-167: one name of the dispatch table, and one that is not in it
KnownTool == "read_text_block"
UnknownTool == "no_such_tool"
ToolNames == {KnownTool, UnknownTool}

\* Identifier of a tool call: session number and position in the session.
NoId == [s |-> 0, n |-> 0]

\* A value carried by a result holder / a tool_result: what happened (kind)
\* and the call it belongs to (id).
Val(kind, id) == [kind |-> kind, id |-> id]
NoVal == Val("none", NoId)

\* Content blocks of the API message format (operators.py:157-166, 208-212).
TextBlock(t) ==
    [type |-> "text", text |-> t, id |-> NoId, name |-> "", content |-> NoVal]
ToolUseBlock(id, name) ==
    [type |-> "tool_use", text |-> <<>>, id |-> id, name |-> name, content |-> NoVal]
ToolResultBlock(id, content) ==
    [type |-> "tool_result", text |-> <<>>, id |-> id, name |-> "", content |-> content]

Message(role, content) == [role |-> role, content |-> content]

\* operators.py:488-491: the user message appended at submission
UserPrompt == Message("user", <<TextBlock(<<"p">>)>>)

\* Units of work held by the bridge queue.  One record shape for all kinds.
Unit(kind) ==
    [kind |-> kind, msg |-> "", text |-> <<>>, msgs |-> <<>>,
     fn |-> "", h |-> 0, id |-> NoId, name |-> ""]
\* operators.py:104 etc.: lambda: _on_cancelled(scene_name)
OnCancelledUnit == Unit("on_cancelled")
\* operators.py:136-138 etc.: lambda: _on_error(s, m)
OnErrorUnit(m) == [Unit("on_error") EXCEPT !.msg = m]
\* operators.py:174-176, 291-313, 337-348: _finish / _finish_fallback
OnCompleteUnit(t, m) == [Unit("on_complete") EXCEPT !.text = t, !.msgs = m]
\* operators.py:194-199
ShowToolUnit(id, name) == [Unit("show_tool") EXCEPT !.id = id, !.name = name]
\* operators.py:215-220
ShowResultUnit(id, name) == [Unit("show_result") EXCEPT !.id = id, !.name = name]
\* bridge.py:80-85: _wrapper closing over fn, its arguments and the holder
WrapperUnit(fn, h, id, name) ==
    [Unit("wrapper") EXCEPT !.fn = fn, !.h = h, !.id = id, !.name = name]

TerminalKinds == {"on_complete", "on_error", "on_cancelled"}

\* A fresh _ResultHolder (bridge.py:19-22)
NewHolder == [is_set |-> FALSE, result |-> NoVal, error |-> NoVal]

VARIABLES
    \* ---- host state, owner thread only ----
    conversation_history,   \* properties.py:97
    is_generating,          \* scene.claude.is_generating
    ui_streaming_text,      \* scene.claude.streaming_text
    \* ---- shared between the threads ----
    cancel_flag,            \* operators.py:24  _cancel_flag
    session_id,             \* cli.py:111  _session_id ("" is None)
    queue,                  \* bridge._queue
    streaming_text,         \* bridge._streaming_text
    holders,                \* every _ResultHolder created so far
    \* ---- owner thread: the timer callback ----
    timer_registered,       \* bridge._timer_registered
    tick_pc,                \* "idle" | "drain": inside _process_queue or not
    processed,              \* local of _process_queue
    \* ---- background generation thread ----
    backend,                \* prefs.backend of the session ("API" | "CLI")
    pc,                     \* position of the worker
    iteration,              \* loop variable of _generation_worker
    current_messages,
    text_content,           \* text_content / accumulated_text
    tool_uses,
    stop_reason,
    tool_results,
    tu,                     \* index of the tool call being executed
    holder,                 \* index in holders of the holder being waited on
    cont,                   \* what the worker does once the wait returns
    cur_event,              \* CLI: the event the decoder has just yielded
    final_text,             \* CLI: final_text of the result event
    nevents,                \* events/lines the session has received
    \* ---- history variables: what has happened in the current session ----
    sessions,               \* prompts submitted so far
    requests,               \* streaming requests made by the session
    ntools,                 \* tool calls received by the session
    terminals,              \* terminal notifications the worker scheduled
    delivered,              \* terminal notifications run on the owner thread
    toolRuns,               \* tool calls run on the owner thread, in order
    submitted,              \* conversation_history as handed to the worker
    terminated,             \* cli.py:206  process.terminate() was called
    \* ---- the bridge on its own: any background callers, teardown ----
    callers,                \* background threads using execute_on_main
    unreg_pc,               \* "idle" | "drain": inside bridge.unregister or not
    nenq,                   \* history: units enqueued so far (ticket counter)
    ran,                    \* history: tickets of the units run, in order
    caught,                 \* history: tickets of the units whose run raised
    nunreg,                 \* history: calls of bridge.unregister completed
    \* ---- workspace.py: Workspace and what it mirrors ----
    texts,                  \* bpy.data.texts: name -> content of the text blocks
    disk,                   \* the workspace directory: filename -> file
    hashes,                 \* Workspace._hashes
    name_map,               \* Workspace._name_map, in insertion order
    mtimes,                 \* Workspace._mtimes
    changes,                \* history: what the last sync_back returned
    written,                \* history: the files the last sync_out wrote
    renamed,                \* history: the files the last sync_out renamed
    removed,                \* history: the files the last sync_out removed
    ws_op,                  \* history: the last workspace operation
    ws_pre,                 \* history: of a poll_changes, a file had another
                            \* mtime; of a sync_out, the disk was not as
                            \* the workspace left it when it began; of a
                            \* sync_back, it came right after a sync_out
                            \* that found the disk as the workspace left it
    win32,                  \* sys.platform == "win32"
    ext_created,            \* history: a file was created from outside
    nops,                   \* history: operations of the user and of tools
    \* ---- the add-on over several prompts ----
    workers,                \* the generation threads started so far
    nsubmit,                \* history: submissions of a prompt so far
    \* ---- the edit tool ----
    edit_result,            \* what the last call of edit_text_block returned
    \* ---- the timer callback's poll of the workspace ----
    poll_tick,              \* bridge._poll_tick
    since_poll,             \* history: callbacks ended since the last call
                            \* of poll_changes (or since construction)
    polled,                 \* history: what the last callback did about
                            \* the poll
    \* ---- cli.py: the decoder of the subprocess's output on its own ----
    dec_pc,                 \* position of the generator stream_response
    process,                \* the subprocess: "none" | "running" | "exited"
                            \* | "killed"
    signals,                \* history: terminate() and kill() calls, in order
    yielded,                \* history: the types of the events yielded
    flagged,                \* history: events yielded before the first line
                            \* that was received with the flag set (-1: none)
    \* ---- api.py: the decoder of the event stream on its own ----
    sse,                    \* the generator stream_messages: its position,
                            \* its tool_blocks and the events it has yielded
    sse2,                   \* the same generator fed the same stream without
                            \* the malformed data lines
    sse_line,               \* history: the line received last
    open_blocks,            \* history: per index, the tool block started and
                            \* not yet stopped and the deltas sent for it
    nlines                  \* history: lines received

hostVars == <<conversation_history, is_generating, ui_streaming_text>>
sharedVars == <<cancel_flag, session_id, queue, streaming_text, holders>>
tickVars == <<timer_registered, tick_pc, processed>>
workerVars == <<backend, pc, iteration, current_messages, text_content, tool_uses,
                stop_reason, tool_results, tu, holder, cont, cur_event,
                final_text, nevents>>
historyVars == <<sessions, requests, ntools, terminals, delivered, toolRuns,
                 submitted, terminated>>
brVars == <<callers, unreg_pc, nenq, ran, caught, nunreg>>
wsVars == <<texts, disk, hashes, name_map, mtimes, changes, written, renamed, removed, ws_op,
           ws_pre, win32, ext_created, nops>>
sessVars == <<workers, nsubmit>>
editVars == <<edit_result>>
pollVars == <<poll_tick, since_poll, polled>>
\* the variables that only the specifications further down change
decVars == <<dec_pc, process, signals, yielded, flagged>>
sseVars == <<sse, sse2, sse_line, open_blocks, nlines>>
restVars == <<pollVars, decVars, sseVars>>
vars == <<hostVars, sharedVars, tickVars, workerVars, historyVars, brVars, wsVars,
          sessVars, editVars, restVars>>

\* no workspace operation yet
NoOp == "none"

\* no call of edit_text_block yet
NoResult == [kind |-> "none", count |-> 0, name |-> <<>>, old_string |-> <<>>,
             new_string |-> <<>>]

\* the background threads of the bridge-only specification
Callers == {1, 2}
IdleCaller == [pc |-> "idle", h |-> 0]

NoEvent == [type |-> "none", text |-> <<>>, sid |-> "", has_text |-> FALSE]

\* The state after construction, apart from the timer's registration, the
\* platform, the text blocks of the file that is open and the queue.
InitState ==
    /\ conversation_history = <<>>
    /\ is_generating = FALSE
    /\ ui_streaming_text = <<>>
    /\ cancel_flag = FALSE
    /\ session_id = ""
    /\ streaming_text = <<>>
    /\ holders = <<>>
    /\ tick_pc = "idle"
    /\ processed = 0
    /\ backend = ""
    /\ pc = "idle"
    /\ iteration = 0
    /\ current_messages = <<>>
    /\ text_content = <<>>
    /\ tool_uses = <<>>
    /\ stop_reason = ""
    /\ tool_results = <<>>
    /\ tu = 0
    /\ holder = 0
    /\ cont = ""
    /\ cur_event = NoEvent
    /\ final_text = <<>>
    /\ nevents = 0
    /\ sessions = 0
    /\ requests = 0
    /\ ntools = 0
    /\ terminals = <<>>
    /\ delivered = <<>>
    /\ toolRuns = <<>>
    /\ submitted = <<>>
    /\ terminated = FALSE
    /\ callers = [c \in Callers |-> IdleCaller]
    /\ unreg_pc = "idle"
    /\ ran = <<>>
    /\ caught = <<>>
    /\ nunreg = 0
    /\ disk = <<>>
    /\ hashes = <<>>
    /\ name_map = <<>>
    /\ mtimes = <<>>
    /\ changes = <<>>
    /\ written = {}
    /\ renamed = {}
    /\ removed = {}
    /\ ws_op = NoOp
    /\ ws_pre = FALSE
    /\ ext_created = FALSE
    /\ nops = 0
    /\ workers = <<>>
    /\ nsubmit = 0
    /\ poll_tick = 0
    /\ since_poll = 0
    /\ polled = "none"
    /\ dec_pc = "none"
    /\ process = "none"
    /\ signals = <<>>
    /\ yielded = <<>>
    /\ flagged = -1
    /\ sse = [pc |-> "read", tool_blocks |-> [i \in {0, 1} |->
                  [id |-> "", name |-> "", input_json |-> <<>>]], out |-> <<>>]
    /\ sse2 = sse
    /\ sse_line = [kind |-> "none", index |-> 0, id |-> "", name |-> "",
                   partial |-> <<>>]
    /\ open_blocks = [i \in {0, 1} |->
                        [started |-> FALSE, id |-> "", name |-> "", deltas |-> <<>>]]
    /\ nlines = 0

\* __init__.py:44-51: the addon is registered, the timer runs
Init ==
    /\ timer_registered = TRUE
    /\ win32 = FALSE
    /\ texts = <<>>
    /\ edit_result = NoResult
    /\ queue = <<>>
    /\ nenq = 0
    /\ InitState

\* the add-on registered, on any platform: only the workspace depends on it
InitWS ==
    /\ timer_registered = TRUE
    /\ win32 \in BOOLEAN
    /\ texts = <<>>
    /\ edit_result = NoResult
    /\ queue = <<>>
    /\ nenq = 0
    /\ InitState

\* bridge.py:44-49: a bridge that has been constructed and not registered
InitBridge ==
    /\ timer_registered = FALSE
    /\ win32 = FALSE
    /\ texts = <<>>
    /\ edit_result = NoResult
    /\ queue = <<>>
    /\ nenq = 0
    /\ InitState


(***************************************************************************)
(* bridge.py: queue, result holders, side channel.                         *)
(***************************************************************************)
\* A mutant of Schedule: the unit is put at the head of the queue.
SchedulePrepend(q, u) == <<u>> \o q

\* bridge.py:69-71  schedule(fn): self._queue.put(fn)
Schedule(q, u) == Append(q, u)

\* bridge.py:24-26  _ResultHolder.set
HolderSet(h, v) == [h EXCEPT !.result = v, !.is_set = TRUE]

\* bridge.py:28-30  _ResultHolder.set_error
HolderSetError(h, e) == [h EXCEPT !.error = e, !.is_set = TRUE]

\* A mutant of HolderWait: the timeout is not detected, the (empty) result
\* of work that has not run is returned.
HolderWaitNoTimeout(h) ==
    IF h.error # NoVal THEN [kind |-> "raise", val |-> h.error]
    ELSE [kind |-> "return", val |-> h.result]

\* bridge.py:34-38  _ResultHolder.wait once self._event.wait(timeout) is back:
\* TimeoutError if the event is not set, else the stored error is raised,
\* else the stored result is returned.
HolderWait(h) ==
    IF ~h.is_set THEN [kind |-> "raise", val |-> Val("timeout", NoId)]
    ELSE IF h.error # NoVal THEN [kind |-> "raise", val |-> h.error]
    ELSE [kind |-> "return", val |-> h.result]

(***************************************************************************)
(* tools.py: the dispatch boundary.                                        *)
(***************************************************************************)
\* A mutant of ExecuteTool: the handler's exception is not caught.
ExecuteToolUncaught(name, handler_raises) ==
    IF name # KnownTool THEN [kind |-> "return", val |-> "unknown_tool"]
    ELSE IF handler_raises THEN [kind |-> "raise", val |-> "handler_error"]
    ELSE [kind |-> "return", val |-> "ok"]

\* A mutant of ExecuteTool: the handler is looked up with dispatch[name].
ExecuteToolNoLookup(name, handler_raises) ==
    IF name # KnownTool THEN [kind |-> "raise", val |-> "key_error"]
    ELSE IF handler_raises THEN [kind |-> "return", val |-> "handler_error"]
    ELSE [kind |-> "return", val |-> "ok"]

\* tools.py:157-177  execute_tool(name, tool_input): an unknown name and an
\* exception of the handler both come back as an error payload.
ExecuteTool(name, handler_raises) ==
    IF name # KnownTool THEN [kind |-> "return", val |-> "unknown_tool"]
    ELSE IF handler_raises THEN [kind |-> "return", val |-> "handler_error"]
    ELSE [kind |-> "return", val |-> "ok"]

(***************************************************************************)
(* operators.py: pieces of _generation_worker.                             *)
(***************************************************************************)
\* operators.py:103, 118, 152, 182, 248, 263  _cancel_flag.is_set()
CancelObserved == cancel_flag

\* A mutant of HasNextIteration: one round too many.
HasNextIterationOffByOne(i) == i <= MaxIterations

\* operators.py:102  for iteration in range(max_iterations)
HasNextIteration(i) == i < MaxIterations

\* operators.py:170  if stop_reason == "end_turn" or not tool_uses
TurnEnds(stop, tus) == stop = "end_turn" \/ tus = <<>>

\* operators.py:160-166  one tool_use block per collected tool call, in order
ToolUseBlocks(tus) == [i \in 1..Len(tus) |-> ToolUseBlock(tus[i].id, tus[i].name)]

\* operators.py:157-167  the assistant message of one round
AssistantMessage(text, tus) ==
    Message("assistant",
            (IF text # <<>> THEN <<TextBlock(text)>> ELSE <<>>) \o ToolUseBlocks(tus))

\* A mutant of ToolResultOf: a failed rendezvous is re-raised as it is.
ToolResultOfUncaught(outcome) == outcome

\* operators.py:203-206  result = holder.wait(60), an exception of the wait
\* becomes the JSON error payload of the call
ToolResultOf(outcome) ==
    IF outcome.kind = "raise"
    THEN [kind |-> "return",
          val |-> Val(IF outcome.val.kind = "timeout" THEN "timeout" ELSE "raised",
                      outcome.val.id)]
    ELSE outcome

\* The entry written to the history variable terminals when a terminal
\* notification is scheduled: the unit and the flag's value at that moment.
Terminal(u) == [kind |-> u.kind, msg |-> u.msg, flag |-> cancel_flag]

\* The worker schedules the terminal notification u and returns.
Finish(u) ==
    /\ queue' = Schedule(queue, u)
    /\ terminals' = Append(terminals, Terminal(u))
    /\ pc' = "done"

ErrMaxIterations == "Reached maximum tool iterations"
ErrNoResponse == "No response from Claude CLI"


(***************************************************************************)
(* operators.py:429-552: the operators the panel offers.                   *)
(***************************************************************************)
\* CLAUDE_OT_SendPrompt.execute (operators.py:435-536) with backend b.  The
\* model follows one session: a submission rejected by the checks of lines
\* 443-463 changes nothing.
SendPrompt(b) ==
    /\ tick_pc = "idle"
    /\ ~is_generating
    /\ sessions = 0
    /\ conversation_history' = Append(conversation_history, UserPrompt)
    /\ is_generating' = TRUE
    /\ ui_streaming_text' = <<>>
    /\ cancel_flag' = FALSE
    /\ backend' = b
    /\ pc' = IF b = "CLI" THEN "cli_start" ELSE "loop_top"
    /\ current_messages' = IF b = "CLI" THEN <<>> ELSE conversation_history'
    /\ submitted' = conversation_history'
    /\ sessions' = sessions + 1
    /\ UNCHANGED <<session_id, queue, streaming_text, holders, tickVars,
                   iteration, text_content, tool_uses, stop_reason,
                   tool_results, tu, holder, cont, cur_event, final_text,
                   nevents, requests, ntools, terminals, delivered, toolRuns,
                   terminated>>
    /\ UNCHANGED <<brVars, wsVars, sessVars, editVars, restVars>>

SendPromptAPI == SendPrompt("API")

SendPromptCLI == SendPrompt("CLI")

\* CLAUDE_OT_Stop (operators.py:545-552): poll is is_generating
Stop ==
    /\ tick_pc = "idle"
    /\ is_generating
    /\ ~cancel_flag
    /\ cancel_flag' = TRUE
    /\ UNCHANGED <<hostVars, session_id, queue, streaming_text, holders,
                   tickVars, workerVars, historyVars>>
    /\ UNCHANGED <<brVars, wsVars, sessVars, editVars, restVars>>

(***************************************************************************)
(* operators.py:95-232  _generation_worker, one action per step.           *)
(***************************************************************************)
\* operators.py:102-110 and 229-232: the head of the for loop, its cancel
\* check, and the error scheduled when the range is exhausted
LoopTop ==
    /\ pc = "loop_top"
    /\ IF HasNextIteration(iteration)
       THEN IF CancelObserved
            THEN /\ Finish(OnCancelledUnit)
                 /\ UNCHANGED <<text_content, tool_uses, stop_reason>>
            ELSE /\ pc' = "request"
                 /\ text_content' = <<>>
                 /\ tool_uses' = <<>>
                 /\ stop_reason' = ""
                 /\ UNCHANGED <<queue, terminals>>
       ELSE /\ Finish(OnErrorUnit(ErrMaxIterations))
            /\ UNCHANGED <<text_content, tool_uses, stop_reason>>
    /\ UNCHANGED <<hostVars, cancel_flag, session_id, streaming_text, holders,
                   tickVars, backend, iteration, current_messages, tool_results, tu,
                   holder, cont, cur_event, final_text, nevents, sessions,
                   requests, ntools, delivered, toolRuns, submitted, terminated>>
    /\ UNCHANGED <<brVars, wsVars, sessVars, editVars, restVars>>

\* operators.py:113-117 with api.py:53-69: the streaming request is made;
\* a non-200 answer raises APIError (operators.py:141-145)
Request ==
    /\ pc = "request"
    /\ streaming_text' = <<>>
    /\ requests' = requests + 1
    /\ \/ /\ pc' = "streaming"
          /\ UNCHANGED <<queue, terminals>>
       \/ Finish(OnErrorUnit("api_error"))
    /\ UNCHANGED <<hostVars, cancel_flag, session_id, holders, tickVars,
                   backend, iteration, current_messages, text_content, tool_uses,
                   stop_reason, tool_results, tu, holder, cont, cur_event,
                   final_text, nevents, sessions, ntools, delivered, toolRuns,
                   submitted, terminated>>
    /\ UNCHANGED <<brVars, wsVars, sessVars, editVars, restVars>>

\* The events api.stream_messages can yield next (api.py:106-168).
APIEvent(type) ==
    [type |-> type, text |-> <<>>, id |-> NoId, name |-> "", stop_reason |-> "",
     msg |-> ""]
APIEvents ==
    {[APIEvent("text_delta") EXCEPT !.text = <<"a">>]}
    \cup {[APIEvent("tool_use_complete") EXCEPT
              !.id = [s |-> sessions, n |-> ntools + 1], !.name = n] :
          n \in ToolNames}
    \cup {[APIEvent("message_complete") EXCEPT !.stop_reason = r] :
          r \in {"end_turn", "tool_use"}}
    \cup {[APIEvent("error") EXCEPT !.msg = "stream_error"]}
    \cup {APIEvent("tool_use_start")}

\* operators.py:114-139: one event is received and handled
StreamEvent ==
    /\ pc = "streaming"
    /\ nevents < MaxEvents
    /\ nevents' = nevents + 1
    /\ \E e \in APIEvents :
        IF CancelObserved
        THEN /\ Finish(OnCancelledUnit)
             /\ UNCHANGED <<text_content, streaming_text, tool_uses, ntools,
                            stop_reason>>
        ELSE CASE e.type = "text_delta" ->
                    /\ text_content' = text_content \o e.text
                    /\ streaming_text' = text_content'
                    /\ UNCHANGED <<tool_uses, ntools, stop_reason, queue,
                                   terminals, pc>>
               [] e.type = "tool_use_complete" ->
                    /\ tool_uses' = Append(tool_uses, e)
                    /\ ntools' = ntools + 1
                    /\ UNCHANGED <<text_content, streaming_text, stop_reason,
                                   queue, terminals, pc>>
               [] e.type = "message_complete" ->
                    /\ stop_reason' = e.stop_reason
                    /\ UNCHANGED <<text_content, streaming_text, tool_uses,
                                   ntools, queue, terminals, pc>>
               [] e.type = "error" ->
                    /\ Finish(OnErrorUnit(e.msg))
                    /\ UNCHANGED <<text_content, streaming_text, tool_uses,
                                   ntools, stop_reason>>
               [] OTHER ->
                    UNCHANGED <<text_content, streaming_text, tool_uses,
                                ntools, stop_reason, queue, terminals, pc>>
    /\ UNCHANGED <<hostVars, cancel_flag, session_id, holders, tickVars,
                   backend, iteration, current_messages, tool_results, tu, holder,
                   cont, cur_event, final_text, sessions, requests, delivered,
                   toolRuns, submitted, terminated>>
    /\ UNCHANGED <<brVars, wsVars, sessVars, editVars, restVars>>

\* operators.py:146-150: the stream raises (connection lost, bad event)
StreamRaise ==
    /\ pc = "streaming"
    /\ Finish(OnErrorUnit("stream_exception"))
    /\ UNCHANGED <<hostVars, cancel_flag, session_id, streaming_text, holders,
                   tickVars, backend, iteration, current_messages, text_content,
                   tool_uses, stop_reason, tool_results, tu, holder, cont,
                   cur_event, final_text, nevents, sessions, requests, ntools,
                   delivered, toolRuns, submitted, terminated>>
    /\ UNCHANGED <<brVars, wsVars, sessVars, editVars, restVars>>

\* the generator is exhausted: the for loop of operators.py:114 ends
StreamEnd ==
    /\ pc = "streaming"
    /\ pc' = "post_stream"
    /\ UNCHANGED <<hostVars, sharedVars, tickVars, backend, iteration, current_messages,
                   text_content, tool_uses, stop_reason, tool_results, tu,
                   holder, cont, cur_event, final_text, nevents, historyVars>>
    /\ UNCHANGED <<brVars, wsVars, sessVars, editVars, restVars>>

\* operators.py:152-154
PostStream ==
    /\ pc = "post_stream"
    /\ IF CancelObserved
       THEN Finish(OnCancelledUnit)
       ELSE pc' = "build" /\ UNCHANGED <<queue, terminals>>
    /\ UNCHANGED <<hostVars, cancel_flag, session_id, streaming_text, holders,
                   tickVars, backend, iteration, current_messages, text_content,
                   tool_uses, stop_reason, tool_results, tu, holder, cont,
                   cur_event, final_text, nevents, sessions, requests, ntools,
                   delivered, toolRuns, submitted, terminated>>
    /\ UNCHANGED <<brVars, wsVars, sessVars, editVars, restVars>>

\* operators.py:156-180: the assistant message is appended; the session
\* completes, or the tool loop starts
Build ==
    /\ pc = "build"
    /\ current_messages' =
           Append(current_messages, AssistantMessage(text_content, tool_uses))
    /\ IF TurnEnds(stop_reason, tool_uses)
       THEN /\ Finish(OnCompleteUnit(text_content, current_messages'))
            /\ UNCHANGED <<tool_results, tu>>
       ELSE /\ tool_results' = <<>>
            /\ tu' = 1
            /\ pc' = "tool_top"
            /\ UNCHANGED <<queue, terminals>>
    /\ UNCHANGED <<hostVars, cancel_flag, session_id, streaming_text, holders,
                   tickVars, backend, iteration, text_content, tool_uses, stop_reason,
                   holder, cont, cur_event, final_text, nevents, sessions,
                   requests, ntools, delivered, toolRuns, submitted, terminated>>
    /\ UNCHANGED <<brVars, wsVars, sessVars, editVars, restVars>>

\* bridge.py:73-88  execute_on_main: a new holder, its wrapper is enqueued
ExecuteOnMain(q, fn, id, name) ==
    Schedule(q, WrapperUnit(fn, Len(holders) + 1, id, name))

\* operators.py:181-202: cancel check, status text, _show_tool scheduled,
\* the tool call handed to the owner thread
ToolTop ==
    /\ pc = "tool_top"
    /\ IF tu > Len(tool_uses)
       THEN \* operators.py:222-227: the for loop over tool_uses has ended
            /\ current_messages' =
                   Append(current_messages, Message("user", tool_results))
            /\ iteration' = iteration + 1
            /\ text_content' = <<>>
            /\ tool_uses' = <<>>
            /\ pc' = "loop_top"
            /\ UNCHANGED <<queue, terminals, streaming_text, holders, holder,
                           cont>>
       ELSE IF CancelObserved
       THEN /\ Finish(OnCancelledUnit)
            /\ UNCHANGED <<streaming_text, holders, holder, cont,
                           current_messages, iteration, text_content,
                           tool_uses>>
       ELSE /\ streaming_text' = text_content \o <<"[Running]">>
            /\ queue' = ExecuteOnMain(
                            Schedule(queue, ShowToolUnit(tool_uses[tu].id,
                                                         tool_uses[tu].name)),
                            "execute_tool", tool_uses[tu].id, tool_uses[tu].name)
            /\ holders' = Append(holders, NewHolder)
            /\ holder' = Len(holders) + 1
            /\ cont' = "tool"
            /\ pc' = "wait"
            /\ UNCHANGED <<terminals, current_messages, iteration,
                           text_content, tool_uses>>
    /\ UNCHANGED <<hostVars, cancel_flag, session_id, tickVars, backend, stop_reason,
                   tool_results, tu, cur_event, final_text, nevents, sessions,
                   requests, ntools, delivered, toolRuns, submitted, terminated>>
    /\ UNCHANGED <<brVars, wsVars, sessVars, editVars, restVars>>

\* bridge.py:33  self._event.wait(timeout) returns: the event was set, or
\* the timeout has elapsed with the event still clear
EventWait ==
    /\ pc = "wait"
    /\ \/ holders[holder].is_set
       \/ ~holders[holder].is_set
    /\ pc' = "wait_check"
    /\ UNCHANGED <<hostVars, sharedVars, tickVars, backend, iteration, current_messages,
                   text_content, tool_uses, stop_reason, tool_results, tu,
                   holder, cont, cur_event, final_text, nevents, historyVars>>
    /\ UNCHANGED <<brVars, wsVars, sessVars, editVars, restVars>>

\* bridge.py:34-38 and operators.py:203-220: the wait's outcome becomes the
\* tool_result of the call, _show_result is scheduled
ToolWaitReturn ==
    /\ pc = "wait_check"
    /\ cont = "tool"
    /\ LET out == ToolResultOf(HolderWait(holders[holder])) IN
       IF out.kind = "raise"
       THEN \* an exception nothing catches ends the thread
            /\ pc' = "dead"
            /\ UNCHANGED <<tool_results, tu, queue>>
       ELSE /\ tool_results' =
                   Append(tool_results,
                          ToolResultBlock(tool_uses[tu].id, out.val))
            /\ queue' = Schedule(queue, ShowResultUnit(tool_uses[tu].id,
                                                       tool_uses[tu].name))
            /\ tu' = tu + 1
            /\ pc' = "tool_top"
    /\ UNCHANGED <<hostVars, cancel_flag, session_id, streaming_text, holders,
                   tickVars, backend, iteration, current_messages, text_content,
                   tool_uses, stop_reason, holder, cont, cur_event, final_text,
                   nevents, historyVars>>
    /\ UNCHANGED <<brVars, wsVars, sessVars, editVars, restVars>>


(***************************************************************************)
(* operators.py:364-422: the callbacks, run on the owner thread.           *)
(***************************************************************************)
\* operators.py:391-392  conversation_history.clear(); .extend(messages)
NewHistory(history, messages) == messages

\* properties.py:28-88: the properties CLAUDE_State declares
StateProperties ==
    {"messages", "prompt", "is_generating", "streaming_text", "status_message",
     "last_code", "auto_context", "selection_only", "show_tool_calls",
     "message_scroll"}

\* operators.py:386  state.auto_switch_text: reading a property the
\* PropertyGroup does not declare raises AttributeError
AutoSwitchRaises == "auto_switch_text" \notin StateProperties

\* operators.py:364-392  _on_complete: the generation state is reset
\* (371-374); the history is replaced (391-392) if line 386 is passed
OnComplete(u) ==
    /\ is_generating' = FALSE
    /\ ui_streaming_text' = <<>>
    /\ streaming_text' = <<>>
    /\ conversation_history' =
           IF AutoSwitchRaises THEN conversation_history
           ELSE NewHistory(conversation_history, u.msgs)

\* A mutant of OnErrorOrCancelled: the callback also empties the history.
OnErrorClearsHistory ==
    /\ is_generating' = FALSE
    /\ ui_streaming_text' = <<>>
    /\ streaming_text' = <<>>
    /\ conversation_history' = <<>>

\* A mutant of OnErrorOrCancelled: the callback leaves is_generating set.
OnErrorKeepsGenerating ==
    /\ ui_streaming_text' = <<>>
    /\ streaming_text' = <<>>
    /\ UNCHANGED <<is_generating, conversation_history>>

\* operators.py:395-407  _on_error, operators.py:410-422  _on_cancelled
OnErrorOrCancelled ==
    /\ is_generating' = FALSE
    /\ ui_streaming_text' = <<>>
    /\ streaming_text' = <<>>
    /\ UNCHANGED conversation_history

(***************************************************************************)
(* bridge.py:92-143  _process_queue, the timer callback.                   *)
(***************************************************************************)
\* A mutant of TimerRuns: the callback drains whatever the flag says.
TimerRunsAlways(registered) == TRUE

\* bridge.py:95-96 and 155-156: the callback does its work only while the
\* bridge is registered (unregister also removes the timer)
TimerRuns(registered) == registered

\* A mutant of BatchOpen: the batch of a tick is never full.
BatchOpenAlways(n) == TRUE

\* bridge.py:100  while processed < 50
BatchOpen(n) == n < BatchLimit

\* bridge.py:95-99: the timer fires and the callback starts draining
TickBegin ==
    /\ tick_pc = "idle"
    /\ unreg_pc = "idle"
    /\ TimerRuns(timer_registered)
    /\ tick_pc' = "drain"
    /\ processed' = 0
    /\ UNCHANGED <<hostVars, sharedVars, timer_registered, workerVars,
                   historyVars>>
    /\ UNCHANGED <<brVars, wsVars, sessVars, editVars, restVars>>

\* bridge.py:80-85: the wrapper runs fn and stores its outcome in its holder
RunWrapper(u) ==
    /\ \E raises \in BOOLEAN :
         LET out == IF u.fn = "execute_tool"
                    THEN ExecuteTool(u.name, raises)
                    ELSE [kind |-> IF raises THEN "raise" ELSE "return",
                          val |-> IF raises THEN "ws_error" ELSE "ws_ok"]
         IN /\ holders' = [holders EXCEPT ![u.h] =
                              IF out.kind = "return"
                              THEN HolderSet(@, Val(out.val, u.id))
                              ELSE HolderSetError(@, Val(out.val, u.id))]
            /\ toolRuns' = IF u.fn = "execute_tool"
                           THEN Append(toolRuns, Val(out.val, u.id))
                           ELSE toolRuns
    /\ UNCHANGED <<hostVars, streaming_text, delivered>>

\* A mutant of AfterUnit: the exception of a unit leaves the callback.
AfterUnitUncaught(raised) == IF raised THEN "idle" ELSE "drain"

\* bridge.py:102-106  try: fn() except Exception: traceback.print_exc();
\* whatever the unit did, the while loop goes on
AfterUnit(raised) == "drain"

\* a unit of the bridge-only specification: it carries its ticket, the
\* number of the enqueue operation that put it in the queue
Ticketed(u) == u.id.s = 0 /\ u.id.n > 0

\* a scheduled unit whose call raises
Raises(u) == u.kind = "work" /\ u.msg = "raises"

\* bridge.py:100-106: one queued unit is taken and run
TickItem ==
    /\ tick_pc = "drain"
    /\ queue # <<>>
    /\ BatchOpen(processed)
    /\ queue' = Tail(queue)
    /\ processed' = processed + 1
    /\ LET u == Head(queue) IN
       /\ CASE u.kind = "on_complete" ->
                /\ OnComplete(u)
                /\ delivered' = Append(delivered, [kind |-> u.kind, msg |-> u.msg])
                /\ UNCHANGED <<holders, toolRuns>>
           [] u.kind \in {"on_error", "on_cancelled"} ->
                /\ OnErrorOrCancelled
                /\ delivered' = Append(delivered, [kind |-> u.kind, msg |-> u.msg])
                /\ UNCHANGED <<holders, toolRuns>>
           [] u.kind = "wrapper" -> RunWrapper(u)
           [] OTHER -> \* _show_tool, _show_result, any other callable
                UNCHANGED <<hostVars, streaming_text, holders, delivered,
                            toolRuns>>
       /\ tick_pc' = AfterUnit(Raises(u))
       /\ ran' = IF Ticketed(u) THEN Append(ran, u.id.n) ELSE ran
       /\ caught' = IF Raises(u) THEN Append(caught, u.id.n) ELSE caught
    /\ UNCHANGED <<cancel_flag, session_id, timer_registered,
                   workerVars, sessions, requests, ntools, terminals,
                   submitted, terminated, callers, unreg_pc, nenq, nunreg>>
    /\ UNCHANGED <<wsVars, sessVars, editVars, restVars>>

\* bridge.py:108-120, 143: the queue is empty or the batch is full; the
\* streaming text is copied to the scene while a generation is active
TickEndUI ==
    /\ tick_pc = "drain"
    /\ queue = <<>> \/ ~BatchOpen(processed)
    /\ tick_pc' = "idle"
    /\ processed' = 0
    /\ ui_streaming_text' =
           IF is_generating THEN streaming_text ELSE ui_streaming_text
    /\ UNCHANGED <<conversation_history, is_generating, sharedVars,
                   timer_registered, workerVars, historyVars>>
    /\ UNCHANGED <<brVars, wsVars, sessVars, editVars>>

\* bridge.py:108-143: the end of the callback where the workspace poll of
\* lines 122-141 is not observed
TickEnd == TickEndUI /\ UNCHANGED restVars

\* bridge.py:125  if self._poll_tick >= 20
PollEvery == 20

\* A mutant of PollSkipped: the poll does not look at is_generating.
PollSkippedNever(generating) == FALSE

\* bridge.py:127-134  if not is_generating
PollSkipped(generating) == generating

\* workspace._workspace is not None (bridge.py:136-138): get_workspace
\* (workspace.py:349-363) has returned the singleton to a caller
WorkspaceExists ==
    \E i \in DOMAIN holders : holders[i].result.kind = "ws_ok"

\* bridge.py:122-141: the counter, and what the callback does about the
\* poll: nothing before the 20th tick, nothing while a generation is active
\* or while there is no workspace, poll_changes otherwise
TickPoll ==
    \E n \in {poll_tick + 1} :
    \E did \in {IF n < PollEvery THEN "not_due"
                ELSE IF PollSkipped(is_generating) THEN "skipped"
                ELSE IF ~WorkspaceExists THEN "no_workspace"
                ELSE "polled"} :
       /\ poll_tick' = IF n >= PollEvery THEN 0 ELSE n
       /\ polled' = did
       /\ since_poll' = IF did = "polled" THEN 0
                        ELSE IF since_poll < PollEvery THEN since_poll + 1
                        ELSE since_poll

\* bridge.py:108-143: the end of the callback with the workspace poll
TickEndPoll == TickEndUI /\ TickPoll /\ UNCHANGED <<decVars, sseVars>>

(***************************************************************************)
(* cli.py:132-272  stream_response and operators.py:239-357                *)
(* _cli_generation_worker.                                                 *)
(***************************************************************************)
SessionIds == {"s1", "s2"}

CLIEventOf(type) == [NoEvent EXCEPT !.type = type]

\* The lines the subprocess can print next, as the decoder classifies them
\* (cli.py:213-250): an init line, an assistant line with one text block, a
\* result line with or without a "result" field, and a line that is skipped
\* (blank, malformed, of another type).
CLILines ==
    {[CLIEventOf("session_init") EXCEPT !.sid = sid] : sid \in SessionIds \cup {""}}
    \cup {[CLIEventOf("text") EXCEPT !.text = <<"a">>, !.has_text = TRUE]}
    \cup {[CLIEventOf("result") EXCEPT !.sid = sid, !.text = t[1], !.has_text = t[2]] :
          sid \in SessionIds \cup {""}, t \in {<< <<"r">>, TRUE >>, << <<>>, FALSE >>}}
    \cup {CLIEventOf("skipped")}


\* cli.py:205  if cancel_flag and cancel_flag.is_set()
DecoderCancelled == cancel_flag

\* A mutant of NewSessionId: the id of the line is stored whatever it is.
NewSessionIdAlways(old, sid) == sid

\* cli.py:225-227, 240-242  if sid: set_session_id(sid)
NewSessionId(old, sid) == IF sid # "" THEN sid ELSE old

\* operators.py:286-289, 332-335: the history read at that moment plus the
\* assistant message
CLIFinalMessages(history, text) ==
    Append(history, Message("assistant", <<TextBlock(text)>>))

\* operators.py:245: get_workspace is handed to the owner thread
CLIStart ==
    /\ pc = "cli_start"
    /\ queue' = ExecuteOnMain(queue, "get_workspace", NoId, "")
    /\ holders' = Append(holders, NewHolder)
    /\ holder' = Len(holders) + 1
    /\ cont' = "get_workspace"
    /\ pc' = "wait"
    /\ UNCHANGED <<hostVars, cancel_flag, session_id, streaming_text, tickVars,
                   backend, iteration, current_messages, text_content,
                   tool_uses, stop_reason, tool_results, tu, cur_event,
                   final_text, nevents, historyVars>>
    /\ UNCHANGED <<brVars, wsVars, sessVars, editVars, restVars>>

\* operators.py:245-246: .wait(timeout=10) of get_workspace is back; an
\* exception goes to the handler of lines 354-357, else sync_out is handed
\* to the owner thread
CLIWorkspaceReturn ==
    /\ pc = "wait_check"
    /\ cont = "get_workspace"
    /\ LET out == HolderWait(holders[holder]) IN
       IF out.kind = "raise"
       THEN /\ Finish(OnErrorUnit(out.val.kind))
            /\ UNCHANGED <<holders, holder, cont>>
       ELSE /\ queue' = ExecuteOnMain(queue, "sync_out", NoId, "")
            /\ holders' = Append(holders, NewHolder)
            /\ holder' = Len(holders) + 1
            /\ cont' = "sync_out"
            /\ pc' = "wait"
            /\ UNCHANGED terminals
    /\ UNCHANGED <<hostVars, cancel_flag, session_id, streaming_text, tickVars,
                   backend, iteration, current_messages, text_content,
                   tool_uses, stop_reason, tool_results, tu, cur_event,
                   final_text, nevents, sessions, requests, ntools, delivered,
                   toolRuns, submitted, terminated>>
    /\ UNCHANGED <<brVars, wsVars, sessVars, editVars, restVars>>

\* operators.py:246-250: .wait(timeout=10) of sync_out is back; an exception
\* goes to the handler of lines 354-357, else the flag is checked
CLISyncOutReturn ==
    /\ pc = "wait_check"
    /\ cont = "sync_out"
    /\ LET out == HolderWait(holders[holder]) IN
       IF out.kind = "raise"
       THEN Finish(OnErrorUnit(out.val.kind))
       ELSE IF CancelObserved
       THEN Finish(OnCancelledUnit)
       ELSE pc' = "cli_popen" /\ UNCHANGED <<queue, terminals>>
    /\ UNCHANGED <<hostVars, cancel_flag, session_id, streaming_text, holders,
                   tickVars, backend, iteration, current_messages,
                   text_content, tool_uses, stop_reason, tool_results, tu,
                   holder, cont, cur_event, final_text, nevents, sessions,
                   requests, ntools, delivered, toolRuns, submitted, terminated>>
    /\ UNCHANGED <<brVars, wsVars, sessVars, editVars, restVars>>

\* cli.py:174-189: the subprocess is started, or the decoder yields an error
CLIPopen ==
    /\ pc = "cli_popen"
    /\ \/ /\ pc' = "cli_read"
          /\ UNCHANGED cur_event
       \/ /\ cur_event' = [CLIEventOf("error") EXCEPT !.sid = "popen_failed"]
          /\ pc' = "cli_event"
    /\ UNCHANGED <<hostVars, sharedVars, tickVars, backend, iteration,
                   current_messages, text_content, tool_uses, stop_reason,
                   tool_results, tu, holder, cont, final_text, nevents,
                   historyVars>>
    /\ UNCHANGED <<brVars, wsVars, sessVars, editVars, restVars>>

\* cli.py:203-250: the decoder receives a line; with the flag set it
\* terminates the subprocess and returns, else it classifies the line.  The
\* decoder's accumulated_text equals the worker's, which has taken every text
\* event yielded so far.
CLIReadLine ==
    /\ pc = "cli_read"
    /\ nevents < MaxEvents
    /\ nevents' = nevents + 1
    /\ \E l \in CLILines :
        IF DecoderCancelled
        THEN /\ pc' = "cli_fallback"
             /\ terminated' = TRUE
             /\ UNCHANGED <<cur_event, session_id>>
        ELSE CASE l.type = "skipped" ->
                    UNCHANGED <<pc, cur_event, session_id, terminated>>
               [] l.type = "text" ->
                    /\ cur_event' = l
                    /\ pc' = "cli_event"
                    /\ UNCHANGED <<session_id, terminated>>
               [] l.type = "result" ->
                    /\ cur_event' = [l EXCEPT !.text = IF l.has_text THEN l.text
                                                      ELSE text_content,
                                              !.has_text = TRUE]
                    /\ session_id' = NewSessionId(session_id, l.sid)
                    /\ pc' = "cli_event"
                    /\ UNCHANGED terminated
               [] OTHER -> \* session_init
                    /\ cur_event' = l
                    /\ session_id' = NewSessionId(session_id, l.sid)
                    /\ pc' = "cli_event"
                    /\ UNCHANGED terminated
    /\ UNCHANGED <<hostVars, cancel_flag, queue, streaming_text, holders,
                   tickVars, backend, iteration, current_messages,
                   text_content, tool_uses, stop_reason, tool_results, tu,
                   holder, cont, final_text, sessions, requests, ntools,
                   terminals, delivered, toolRuns, submitted>>
    /\ UNCHANGED <<brVars, wsVars, sessVars, editVars, restVars>>

\* cli.py:252-253: reading the output raises, the decoder yields an error
CLIReadRaise ==
    /\ pc = "cli_read"
    /\ cur_event' = [CLIEventOf("error") EXCEPT !.sid = "stream_error"]
    /\ pc' = "cli_event"
    /\ UNCHANGED <<hostVars, sharedVars, tickVars, backend, iteration,
                   current_messages, text_content, tool_uses, stop_reason,
                   tool_results, tu, holder, cont, final_text, nevents,
                   historyVars>>
    /\ UNCHANGED <<brVars, wsVars, sessVars, editVars, restVars>>

\* cli.py:254-272: the output ends and the generator with it (stderr is
\* closed before it is read, so no error event follows)
CLIReadEnd ==
    /\ pc = "cli_read"
    /\ pc' = "cli_fallback"
    /\ UNCHANGED <<hostVars, sharedVars, tickVars, backend, iteration,
                   current_messages, text_content, tool_uses, stop_reason,
                   tool_results, tu, holder, cont, cur_event, final_text,
                   nevents, historyVars>>
    /\ UNCHANGED <<brVars, wsVars, sessVars, editVars, restVars>>

\* operators.py:263-321: the worker handles the event the decoder yielded
CLIEvent ==
    /\ pc = "cli_event"
    /\ IF CancelObserved
       THEN /\ Finish(OnCancelledUnit)
            /\ UNCHANGED <<text_content, streaming_text, final_text, holders,
                           holder, cont>>
       ELSE CASE cur_event.type = "text" ->
                   /\ text_content' = cur_event.text
                   /\ streaming_text' = cur_event.text
                   /\ pc' = "cli_read"
                   /\ UNCHANGED <<queue, terminals, final_text, holders, holder,
                                  cont>>
              [] cur_event.type = "result" ->
                   /\ final_text' = cur_event.text
                   /\ queue' = ExecuteOnMain(queue, "sync_back", NoId, "")
                   /\ holders' = Append(holders, NewHolder)
                   /\ holder' = Len(holders) + 1
                   /\ cont' = "sync_back_result"
                   /\ pc' = "wait"
                   /\ UNCHANGED <<terminals, text_content, streaming_text>>
              [] cur_event.type = "error" ->
                   /\ Finish(OnErrorUnit(cur_event.sid))
                   /\ UNCHANGED <<text_content, streaming_text, final_text,
                                  holders, holder, cont>>
              [] OTHER -> \* session_init: no branch of the worker takes it
                   /\ pc' = "cli_read"
                   /\ UNCHANGED <<queue, terminals, text_content,
                                  streaming_text, final_text, holders, holder,
                                  cont>>
    /\ UNCHANGED <<hostVars, cancel_flag, session_id, tickVars, backend,
                   iteration, current_messages, tool_uses, stop_reason,
                   tool_results, tu, cur_event, nevents, sessions, requests,
                   ntools, delivered, toolRuns, submitted, terminated>>
    /\ UNCHANGED <<brVars, wsVars, sessVars, editVars, restVars>>

\* operators.py:278-314: .wait(timeout=10) of sync_back is back, whatever
\* its outcome; the completion is scheduled with the history as it is now
CLIResultReturn ==
    /\ pc = "wait_check"
    /\ cont = "sync_back_result"
    /\ Finish(OnCompleteUnit(final_text,
                             CLIFinalMessages(conversation_history, final_text)))
    /\ UNCHANGED <<hostVars, cancel_flag, session_id, streaming_text, holders,
                   tickVars, backend, iteration, current_messages,
                   text_content, tool_uses, stop_reason, tool_results, tu,
                   holder, cont, cur_event, final_text, nevents, sessions,
                   requests, ntools, delivered, toolRuns, submitted, terminated>>
    /\ UNCHANGED <<brVars, wsVars, sessVars, editVars, restVars>>

\* operators.py:323-326: the stream ended without a result event
CLIFallback ==
    /\ pc = "cli_fallback"
    /\ queue' = ExecuteOnMain(queue, "sync_back", NoId, "")
    /\ holders' = Append(holders, NewHolder)
    /\ holder' = Len(holders) + 1
    /\ cont' = "sync_back_fallback"
    /\ pc' = "wait"
    /\ UNCHANGED <<hostVars, cancel_flag, session_id, streaming_text, tickVars,
                   backend, iteration, current_messages, text_content,
                   tool_uses, stop_reason, tool_results, tu, cur_event,
                   final_text, nevents, historyVars>>
    /\ UNCHANGED <<brVars, wsVars, sessVars, editVars, restVars>>

\* operators.py:325-352: .wait(timeout=10) of sync_back is back, whatever
\* its outcome; completion with the text so far, or "No response"
CLIFallbackReturn ==
    /\ pc = "wait_check"
    /\ cont = "sync_back_fallback"
    /\ IF text_content # <<>>
       THEN Finish(OnCompleteUnit(text_content,
                       CLIFinalMessages(conversation_history, text_content)))
       ELSE Finish(OnErrorUnit(ErrNoResponse))
    /\ UNCHANGED <<hostVars, cancel_flag, session_id, streaming_text, holders,
                   tickVars, backend, iteration, current_messages,
                   text_content, tool_uses, stop_reason, tool_results, tu,
                   holder, cont, cur_event, final_text, nevents, sessions,
                   requests, ntools, delivered, toolRuns, submitted, terminated>>
    /\ UNCHANGED <<brVars, wsVars, sessVars, editVars, restVars>>

(***************************************************************************)
(* The specification.                                                      *)
(***************************************************************************)
APIWorker ==
    \/ LoopTop \/ Request \/ StreamEvent \/ StreamRaise \/ StreamEnd
    \/ PostStream \/ Build \/ ToolTop \/ ToolWaitReturn

CLIWorker ==
    \/ CLIStart \/ CLIWorkspaceReturn \/ CLISyncOutReturn \/ CLIPopen
    \/ CLIReadLine \/ CLIReadRaise \/ CLIReadEnd \/ CLIEvent
    \/ CLIResultReturn \/ CLIFallback \/ CLIFallbackReturn

Owner ==
    \/ SendPromptAPI \/ SendPromptCLI \/ Stop
    \/ TickBegin \/ TickItem \/ TickEnd

Next == Owner \/ APIWorker \/ CLIWorker \/ EventWait

Spec == Init /\ [][Next]_vars

\* bridge.py:92-143: while the bridge is registered Blender calls
\* _process_queue again every 0.1 s, and a callback that has begun ends
Tick == TickBegin \/ TickItem \/ TickEnd

\* The session under the scheduling the code relies on: the generation
\* thread is a started daemon thread that keeps running (operators.py:
\* 509-535), its waits on a holder carry a timeout (bridge.py:32-38), the
\* stream of a request ends, and the timer keeps firing.
SpecLive ==
    /\ Spec
    /\ WF_vars(APIWorker)
    /\ WF_vars(CLIWorker)
    /\ WF_vars(EventWait)
    /\ WF_vars(Tick)


(***************************************************************************)
(* api.py:60-171  stream_messages on its own: the generator that decodes   *)
(* the lines of the event stream.                                          *)
(***************************************************************************)
\* the block indices of a response
Indices == {0, 1}

\* index not in tool_blocks
NoBlock == [id |-> "", name |-> "", input_json |-> <<>>]

\* the ids and names of tool blocks
ToolStarts == {[id |-> "a", name |-> "n1"], [id |-> "b", name |-> "n2"]}

\* the partial_json fragments of the deltas
Partials == {<<"{">>, <<"}">>}

SSELine(kind) == [kind |-> kind, index |-> 0, id |-> "", name |-> "", partial |-> <<>>]

\* The lines the server can send next, as the decoder classifies them
\* (api.py:77-168): a line that is not a data line (blank, "event: ..."),
\* a data line that is not JSON, a data line whose JSON is not an object,
\* and the data lines of the event types
SSELines ==
    {SSELine("skipped"), SSELine("malformed"), SSELine("scalar"),
     SSELine("text_delta"), SSELine("message_delta")}
    \cup {[SSELine("start_text") EXCEPT !.index = i] : i \in Indices}
    \cup {[SSELine("start_tool") EXCEPT !.index = i, !.id = t.id, !.name = t.name] :
          i \in Indices, t \in ToolStarts}
    \cup {[SSELine("input_json_delta") EXCEPT !.index = i, !.partial = p] :
          i \in Indices, p \in Partials}
    \cup {[SSELine("stop") EXCEPT !.index = i] : i \in Indices}

\* the events of the generator
SSEEvent(type, index) ==
    [type |-> type, index |-> index, id |-> "", name |-> "",
     partial |-> <<>>, input |-> [kind |-> "none", raw |-> <<>>]]

\* json.loads of a string over the characters of Partials: "{}" is the
\* empty object, everything else (the empty string too) is a decode error
JsonValid(str) == str = <<"{", "}">>

EmptyObject == [kind |-> "object", raw |-> <<>>]

\* A mutant of ToolInput: the empty input is parsed like any other.
ToolInputParseAlways(input_json) ==
    IF JsonValid(input_json) THEN EmptyObject
    ELSE [kind |-> "_raw", raw |-> input_json]

\* api.py:137-140  json.loads(tb["input_json"]) if tb["input_json"] else {},
\* and {"_raw": tb["input_json"]} on a decode error
ToolInput(input_json) ==
    IF input_json = <<>> THEN EmptyObject
    ELSE IF JsonValid(input_json) THEN EmptyObject
    ELSE [kind |-> "_raw", raw |-> input_json]

\* A mutant of Malformed: a data line that is not JSON ends the stream.
MalformedFatal(st) == [st EXCEPT !.pc = "raised"]

\* api.py:90-93  except json.JSONDecodeError: continue
Malformed(st) == st

Yield(st, ev) == [st EXCEPT !.out = Append(@, ev)]

\* api.py:77-168: what the generator does with one line
DecodeLine(st, l) ==
    CASE l.kind = "skipped" -> st
      [] l.kind = "malformed" -> Malformed(st)
      [] l.kind = "scalar" -> \* data.get on a non-object raises (95)
            [st EXCEPT !.pc = "raised"]
      [] l.kind = "start_text" -> st
      [] l.kind = "start_tool" ->
            Yield([st EXCEPT !.tool_blocks[l.index] =
                       [id |-> l.id, name |-> l.name, input_json |-> <<>>]],
                  [SSEEvent("tool_use_start", l.index) EXCEPT
                       !.id = l.id, !.name = l.name])
      [] l.kind = "text_delta" -> Yield(st, SSEEvent("text_delta", 0))
      [] l.kind = "input_json_delta" ->
            Yield(IF st.tool_blocks[l.index] # NoBlock
                  THEN [st EXCEPT !.tool_blocks[l.index].input_json =
                                        @ \o l.partial]
                  ELSE st,
                  [SSEEvent("tool_input_delta", l.index) EXCEPT
                       !.partial = l.partial])
      [] l.kind = "stop" ->
            IF st.tool_blocks[l.index] # NoBlock
            THEN Yield([st EXCEPT !.tool_blocks[l.index] = NoBlock],
                       [SSEEvent("tool_use_complete", l.index) EXCEPT
                            !.id = st.tool_blocks[l.index].id,
                            !.name = st.tool_blocks[l.index].name,
                            !.input = ToolInput(st.tool_blocks[l.index].input_json)])
            ELSE Yield(st, SSEEvent("content_block_stop", l.index))
      [] OTHER -> \* message_delta
            Yield(st, SSEEvent("message_complete", 0))

\* what the stream has sent for the tool blocks that are open
Opened(ob, l) ==
    CASE l.kind = "start_tool" ->
            [ob EXCEPT ![l.index] = [started |-> TRUE, id |-> l.id,
                                     name |-> l.name, deltas |-> <<>>]]
      [] l.kind = "input_json_delta" /\ ob[l.index].started ->
            [ob EXCEPT ![l.index].deltas = Append(@, l.partial)]
      [] l.kind = "stop" ->
            [ob EXCEPT ![l.index] = [started |-> FALSE, id |-> "",
                                     name |-> "", deltas |-> <<>>]]
      [] OTHER -> ob

sseOther == <<hostVars, sharedVars, tickVars, workerVars, historyVars, brVars,
              wsVars, sessVars, editVars, pollVars, decVars>>

\* api.py:77-93: the generator receives the next line of the response
SSEReceive ==
    /\ sse.pc = "read"
    /\ nlines < MaxLines
    /\ nlines' = nlines + 1
    /\ \E l \in SSELines :
          /\ sse_line' = l
          /\ sse' = DecodeLine(sse, l)
          /\ sse2' = IF l.kind = "malformed" \/ sse2.pc # "read" THEN sse2
                     ELSE DecodeLine(sse2, l)
          /\ open_blocks' = Opened(open_blocks, l)
    /\ UNCHANGED sseOther

\* api.py:77, 170-171: the response ends; the finally clause closes it
SSEEnd ==
    /\ sse.pc = "read"
    /\ sse' = [sse EXCEPT !.pc = "ended"]
    /\ sse2' = [sse2 EXCEPT !.pc = "ended"]
    /\ UNCHANGED <<sse_line, open_blocks, nlines, sseOther>>

NextSSE == SSEReceive \/ SSEEnd

SpecSSE == Init /\ [][NextSSE]_vars


(***************************************************************************)
(* cli.py:132-272  stream_response on its own: the generator, its          *)
(* subprocess, and a consumer that may set the cancel flag at any moment   *)
(* and may drop the generator at a yield.                                  *)
(***************************************************************************)
decOther == <<hostVars, session_id, queue, streaming_text, holders, tickVars,
              backend, pc, iteration, current_messages, text_content,
              tool_uses, stop_reason, tool_results, tu, holder, cont,
              cur_event, final_text, historyVars, brVars, wsVars, sessVars,
              editVars, pollVars, sseVars>>

\* A mutant of GraceExpired: the grace period counts as expired always.
GraceExpiredAlways(p) == TRUE

\* cli.py:207-210, 260-263  process.wait(timeout) raises TimeoutExpired:
\* the subprocess has not exited when the timeout is over
GraceExpired(p) == p = "running"

\* cli.py:173-189: Popen starts the subprocess, or fails and the generator
\* yields an error event and returns
DecPopen ==
    /\ dec_pc = "none"
    /\ \/ /\ process' = "running"
          /\ dec_pc' = "read"
          /\ UNCHANGED yielded
       \/ /\ yielded' = Append(yielded, "error")
          /\ dec_pc' = "ended"
          /\ UNCHANGED process
    /\ UNCHANGED <<signals, flagged, cancel_flag, nevents, decOther>>

\* operators.py:550  _cancel_flag.set(), at any moment
DecSetCancel ==
    /\ dec_pc \notin {"none", "ended"}
    /\ ~cancel_flag
    /\ cancel_flag' = TRUE
    /\ UNCHANGED <<decVars, nevents, decOther>>

\* the subprocess exits by itself, or because it handles the SIGTERM it got
ProcExit ==
    /\ process = "running"
    /\ process' = "exited"
    /\ UNCHANGED <<dec_pc, signals, yielded, flagged, cancel_flag, nevents,
                   decOther>>

\* cli.py:203-250: a line is received.  With the flag set the subprocess is
\* terminated (205-206); else the line is skipped (blank, malformed, of
\* another type) or an event is yielded for it
DecLine ==
    /\ dec_pc = "read"
    /\ nevents < MaxEvents
    /\ nevents' = nevents + 1
    /\ flagged' = IF cancel_flag /\ flagged = -1 THEN Len(yielded) ELSE flagged
    /\ \E l \in CLILines :
         IF DecoderCancelled
         THEN /\ signals' = Append(signals, "terminate")
              /\ dec_pc' = "grace"
              /\ UNCHANGED yielded
         ELSE IF l.type = "skipped"
         THEN UNCHANGED <<dec_pc, signals, yielded>>
         ELSE /\ yielded' = Append(yielded, l.type)
              /\ dec_pc' = "yield"
              /\ UNCHANGED signals
    /\ UNCHANGED <<process, cancel_flag, decOther>>

\* the consumer asks for the next event: the generator goes on after the
\* yield
DecResume ==
    /\ dec_pc = "yield"
    /\ dec_pc' = "read"
    /\ UNCHANGED <<process, signals, yielded, flagged, cancel_flag, nevents,
                   decOther>>

\* operators.py:263-265, 312, 321: the consumer returns from its for loop;
\* the generator is closed at the yield and its finally clause runs
DecClose ==
    /\ dec_pc = "yield"
    /\ dec_pc' = "closing"
    /\ UNCHANGED <<process, signals, yielded, flagged, cancel_flag, nevents,
                   decOther>>

\* cli.py:207-211: wait(timeout=3) returns or times out, kill() in the
\* second case, then return: the finally clause runs
DecGrace ==
    /\ dec_pc = "grace"
    /\ IF GraceExpired(process)
       THEN /\ signals' = Append(signals, "kill")
            /\ process' = "killed"
       ELSE UNCHANGED <<signals, process>>
    /\ dec_pc' = "closing"
    /\ UNCHANGED <<yielded, flagged, cancel_flag, nevents, decOther>>

\* cli.py:203: the output ends, the for loop is left
DecEOF ==
    /\ dec_pc = "read"
    /\ dec_pc' = "cleanup"
    /\ UNCHANGED <<process, signals, yielded, flagged, cancel_flag, nevents,
                   decOther>>

\* cli.py:252-253: reading the output raises, an error event is yielded
DecRaise ==
    /\ dec_pc = "read"
    /\ yielded' = Append(yielded, "error")
    /\ dec_pc' = "cleanup"
    /\ UNCHANGED <<process, signals, flagged, cancel_flag, nevents, decOther>>

\* cli.py:254-263: the finally clause: the pipes are closed, wait(timeout=5)
\* returns or times out, kill() in the second case.  After a return or a
\* close the generator ends; else it goes on to line 265
DecFinally ==
    /\ dec_pc \in {"closing", "cleanup"}
    /\ IF GraceExpired(process)
       THEN /\ signals' = Append(signals, "kill")
            /\ process' = "killed"
       ELSE UNCHANGED <<signals, process>>
    /\ dec_pc' = IF dec_pc = "closing" THEN "ended" ELSE "check"
    /\ UNCHANGED <<yielded, flagged, cancel_flag, nevents, decOther>>

\* cli.py:265-272: a non-zero return code with text on stderr is yielded as
\* an error event
DecCheck ==
    /\ dec_pc = "check"
    /\ \/ UNCHANGED yielded
       \/ yielded' = Append(yielded, "error")
    /\ dec_pc' = "ended"
    /\ UNCHANGED <<process, signals, flagged, cancel_flag, nevents, decOther>>

NextDecoder ==
    \/ DecPopen \/ DecSetCancel \/ ProcExit \/ DecLine \/ DecResume
    \/ DecClose \/ DecGrace \/ DecEOF \/ DecRaise \/ DecFinally
    \/ DecCheck

SpecDecoder == Init /\ [][NextDecoder]_vars


\* The session of the CLI backend with the timer callback's workspace poll.
NextPoll ==
    \/ SendPromptCLI \/ Stop
    \/ TickBegin \/ TickItem \/ TickEndPoll
    \/ CLIWorker \/ EventWait

SpecPoll == Init /\ [][NextPoll]_vars


(***************************************************************************)
(* The bridge on its own (bridge.py): any background threads enqueue work, *)
(* the owner thread ticks, registers and unregisters.                      *)
(***************************************************************************)
\* a callable handed to the bridge; r says whether calling it raises
WorkUnit(r, t) == [Unit("work") EXCEPT !.msg = r, !.id = [s |-> 0, n |-> t]]

\* bridge.py:69-71: a background thread schedules a callable
BgSchedule ==
    /\ nenq < MaxWork
    /\ \E r \in {"", "raises"} :
          queue' = Schedule(queue, WorkUnit(r, nenq + 1))
    /\ nenq' = nenq + 1
    /\ UNCHANGED <<hostVars, cancel_flag, session_id, streaming_text, holders,
                   tickVars, workerVars, historyVars, callers, unreg_pc, ran,
                   caught, nunreg, wsVars, sessVars, editVars, restVars>>

\* bridge.py:73-88: background thread c calls execute_on_main and starts to
\* wait on the holder
BgExecuteOnMain(c) ==
    /\ callers[c].pc = "idle"
    /\ nenq < MaxWork
    /\ queue' = ExecuteOnMain(queue, "work", [s |-> 0, n |-> nenq + 1], "")
    /\ holders' = Append(holders, NewHolder)
    /\ callers' = [callers EXCEPT ![c] = [pc |-> "wait", h |-> Len(holders) + 1]]
    /\ nenq' = nenq + 1
    /\ UNCHANGED <<hostVars, cancel_flag, session_id, streaming_text,
                   tickVars, workerVars, historyVars, unreg_pc, ran, caught,
                   nunreg, wsVars, sessVars, editVars, restVars>>

\* bridge.py:33: the event.wait(timeout) of thread c returns, woken by the
\* event or by the timeout
BgEventWait(c) ==
    /\ callers[c].pc = "wait"
    /\ callers' = [callers EXCEPT ![c].pc = "wait_check"]
    /\ UNCHANGED <<hostVars, sharedVars, tickVars, workerVars, historyVars,
                   unreg_pc, nenq, ran, caught, nunreg, wsVars, sessVars, editVars, restVars>>

\* bridge.py:34-38: wait returns the result or raises; thread c goes on
BgWaitReturn(c) ==
    /\ callers[c].pc = "wait_check"
    /\ HolderWait(holders[callers[c].h]).kind \in {"return", "raise"}
    /\ callers' = [callers EXCEPT ![c] = IdleCaller]
    /\ UNCHANGED <<hostVars, sharedVars, tickVars, workerVars, historyVars,
                   unreg_pc, nenq, ran, caught, nunreg, wsVars, sessVars, editVars, restVars>>

\* bridge.py:145-149  register: the timer is registered unless it is already
Register ==
    /\ tick_pc = "idle"
    /\ unreg_pc = "idle"
    /\ ~timer_registered
    /\ timer_registered' = TRUE
    /\ UNCHANGED <<hostVars, sharedVars, tick_pc, processed, workerVars,
                   historyVars, brVars, wsVars, sessVars, editVars, restVars>>

\* bridge.py:151-158  unregister: the flag is cleared and the timer removed,
\* whether or not the bridge was registered
UnregisterBegin ==
    /\ tick_pc = "idle"
    /\ unreg_pc = "idle"
    /\ nunreg < MaxUnregister
    /\ timer_registered' = FALSE
    /\ unreg_pc' = "drain"
    /\ UNCHANGED <<hostVars, sharedVars, tick_pc, processed, workerVars,
                   historyVars, callers, nenq, ran, caught, nunreg, wsVars, sessVars, editVars, restVars>>

\* bridge.py:160-162: one queued unit is taken and dropped
UnregisterGet ==
    /\ unreg_pc = "drain"
    /\ queue # <<>>
    /\ queue' = Tail(queue)
    /\ UNCHANGED <<hostVars, cancel_flag, session_id, streaming_text, holders,
                   tickVars, workerVars, historyVars, brVars, wsVars, sessVars, editVars, restVars>>

\* bridge.py:160: the queue is empty, unregister returns
UnregisterEnd ==
    /\ unreg_pc = "drain"
    /\ queue = <<>>
    /\ unreg_pc' = "idle"
    /\ nunreg' = nunreg + 1
    /\ UNCHANGED <<hostVars, sharedVars, tickVars, workerVars, historyVars,
                   callers, nenq, ran, caught, wsVars, sessVars, editVars, restVars>>

Background ==
    \/ BgSchedule
    \/ \E c \in Callers : BgExecuteOnMain(c) \/ BgEventWait(c) \/ BgWaitReturn(c)

NextBridge ==
    \/ Background
    \/ TickBegin \/ TickItem \/ TickEnd
    \/ Register \/ UnregisterBegin \/ UnregisterGet \/ UnregisterEnd

SpecBridge == InitBridge /\ [][NextBridge]_vars

(***************************************************************************)
(* The bridge with a backlog: background threads have enqueued more than   *)
(* one batch of work since the last tick; the bridge stays registered.     *)
(***************************************************************************)
\* the units queued when the next tick begins
Backlogs == {BatchLimit - 1, BatchLimit + 1}

\* the backlog: n units in the order of their enqueue operations; the unit
\* with ticket bad is one whose call raises
Backlog(n, bad) ==
    [t \in 1..n |-> WorkUnit(IF t = bad THEN "raises" ELSE "", t)]

\* bridge.py:145-149 and 69-71: a registered bridge, n units scheduled
InitDrain ==
    /\ timer_registered = TRUE
    /\ win32 = FALSE
    /\ texts = <<>>
    /\ edit_result = NoResult
    /\ \E n \in Backlogs : \E bad \in {0, 1, BatchLimit} :
          /\ queue = Backlog(n, bad)
          /\ nenq = n
    /\ InitState

\* bridge.py:69-71: a background thread schedules one more callable, at
\* any moment of the draining
BgScheduleMore ==
    /\ nenq < BatchLimit + 1 + MaxWork
    /\ queue' = Schedule(queue, WorkUnit("", nenq + 1))
    /\ nenq' = nenq + 1
    /\ UNCHANGED <<hostVars, cancel_flag, session_id, streaming_text, holders,
                   tickVars, workerVars, historyVars, callers, unreg_pc, ran,
                   caught, nunreg, wsVars, sessVars, editVars, restVars>>

NextDrain == BgScheduleMore \/ TickBegin \/ TickItem \/ TickEnd

\* bridge.py:143: while registered the timer fires again and again
SpecDrain == InitDrain /\ [][NextDrain]_vars /\ WF_vars(Tick)

(***************************************************************************)
(* The workspace (workspace.py): the text blocks of Blender mirrored as     *)
(* files of a temporary directory.  Names and filenames are sequences of    *)
(* characters, so that sanitizing is computed and two names can collide.    *)
(***************************************************************************)
\* the text block names of the model: three of them sanitize to a_b
BufferNames ==
    { <<"a", "/", "b">>, <<"a", ":", ":", "b">>, <<"a", "_", "b">>, <<"c">> }

\* the filenames an external tool creates
ExtFiles == { <<"a", "_", "b">>, <<"c">> }

\* the contents the user gives a text block
Contents == {1, 2}

\* the contents an external tool gives a file: one that the user may have
\* typed as well, and one of its own
ExtContents == {2, 3}

\* os.path.getmtime is kept relative to the workspace: a file is touched
\* when its mtime is not the one the workspace recorded for its name, and
\* a recorded mtime is the token below (0 is the default of dict.pop)
Recorded == "mtime"

\* _hash: sha256 of the content, taken to be injective
Hash(content) == content

\* dict.get(key) of a missing key
NoHash == 0

\* the members of _UNSAFE_CHARS among the characters of the model
Unsafe == {"/", ":"}

\* the code point of a character
Code(ch) ==
    CASE ch = "/" -> 47  [] ch = "2" -> 50  [] ch = "3" -> 51
      [] ch = "4" -> 52  [] ch = "5" -> 53  [] ch = ":" -> 58
      [] ch = "_" -> 95  [] ch = "a" -> 97  [] ch = "b" -> 98
      [] ch = "c" -> 99  [] OTHER -> 120

\* str(i) of the suffix counter
Digit(i) == <<"0", "1", "2", "3", "4", "5", "6", "7", "8", "9">>[i + 1]

\* re.sub(r"_+", "_", s)
RECURSIVE Collapse(_)
Collapse(s) ==
    IF Len(s) < 2 THEN s
    ELSE IF s[1] = "_" /\ s[2] = "_" THEN Collapse(Tail(s))
    ELSE <<s[1]>> \o Collapse(Tail(s))

\* str.strip("_")
RECURSIVE Strip(_)
Strip(s) ==
    IF s = <<>> THEN s
    ELSE IF s[1] = "_" THEN Strip(Tail(s))
    ELSE IF s[Len(s)] = "_" THEN Strip(SubSeq(s, 1, Len(s) - 1))
    ELSE s

\* _sanitize_name
SanitizeName(name) ==
    LET sub == [i \in 1..Len(name) |-> IF name[i] \in Unsafe THEN "_" ELSE name[i]]
        safe == Strip(Collapse(sub))
    IN  IF safe = <<>> THEN <<"_", "u", "n", "n", "a", "m", "e", "d">> ELSE safe

\* os.path.splitext: the index of the dot that begins the extension, or 0
ExtDot(s) ==
    LET dots == {i \in 2..Len(s) : s[i] = "." /\ \E j \in 1..(i - 1) : s[j] # "."}
    IN  IF dots = {} THEN 0 ELSE CHOOSE i \in dots : \A j \in dots : j <= i

\* f"{base}_{i}{ext}"
Suffixed(s, i) ==
    LET d == ExtDot(s)
        base == IF d = 0 THEN s ELSE SubSeq(s, 1, d - 1)
        ext == IF d = 0 THEN <<>> ELSE SubSeq(s, d, Len(s))
    IN  base \o <<"_", Digit(i)>> \o ext

\* _unique_sanitized returns the name whether it is taken or not
UniqueSanitizedNoSuffix(sanitized, seen) == sanitized

\* Workspace._unique_sanitized
UniqueSanitized(sanitized, seen) ==
    IF sanitized \notin seen THEN sanitized
    ELSE LET free == {i \in 2..9 : Suffixed(sanitized, i) \notin seen}
         IN  Suffixed(sanitized, CHOOSE i \in free : \A j \in free : i <= j)

\* the order of two names by code point
RECURSIVE NameLess(_, _)
NameLess(a, b) ==
    IF b = <<>> THEN FALSE
    ELSE IF a = <<>> THEN TRUE
    ELSE IF a[1] # b[1] THEN Code(a[1]) < Code(b[1])
    ELSE NameLess(Tail(a), Tail(b))

\* bpy.data.texts lists the text blocks by name
RECURSIVE SortedNames(_)
SortedNames(S) ==
    IF S = {} THEN <<>>
    ELSE LET m == CHOOSE x \in S : \A y \in S \ {x} : NameLess(x, y)
         IN  <<m>> \o SortedNames(S \ {m})

\* dict operations on a function
Get(f, k, default) == IF k \in DOMAIN f THEN f[k] ELSE default
Put(f, k, v) == [x \in DOMAIN f \cup {k} |-> IF x = k THEN v ELSE f[x]]
Drop(f, k) == [x \in DOMAIN f \ {k} |-> f[x]]

\* dict operations on _name_map, which keeps the order of insertion
MapIndex(m, san) ==
    IF \E i \in 1..Len(m) : m[i].san = san
    THEN CHOOSE i \in 1..Len(m) : m[i].san = san ELSE 0
\* sync_back takes the filename for the name of the text block
MapGetDefault(m, san, default) == default

MapGet(m, san, default) ==
    IF MapIndex(m, san) = 0 THEN default ELSE m[MapIndex(m, san)].name
MapSet(m, san, name) ==
    IF MapIndex(m, san) = 0 THEN Append(m, [san |-> san, name |-> name])
    ELSE [m EXCEPT ![MapIndex(m, san)].name = name]
MapPop(m, san) == SelectSeq(m, LAMBDA e : e.san # san)
MapNames(m) == {m[i].name : i \in 1..Len(m)}
MapFiles(m) == {m[i].san : i \in 1..Len(m)}

\* the filenames mapped to a text block
FilesOf(m, name) == {m[i].san : i \in {j \in 1..Len(m) : m[j].name = name}}

\* sync_out: old_reverse = {v: k for k, v in self._name_map.items()}
OldReverse(m) ==
    [n \in MapNames(m) |->
        LET is == {i \in 1..Len(m) : m[i].name = n}
        IN  m[CHOOSE i \in is : \A j \in is : j <= i].san]

\* the workspace and the text blocks as one value
WS == [texts |-> texts, disk |-> disk, hashes |-> hashes,
       name_map |-> name_map, mtimes |-> mtimes]

\* a file as the workspace leaves it, and as an external tool leaves it
Written(content) == [content |-> content, touched |-> FALSE]
Foreign(content) == [content |-> content, touched |-> TRUE]

\* os.rename raises FileExistsError on Windows when the target exists
RenameRaises(d, old, new) ==
    win32 /\ old # new /\ old \in DOMAIN d /\ new \in DOMAIN d

\* os.rename, which elsewhere replaces an existing target; when there is no
\* file to move, the record that moves to the new name is not the mtime of
\* the file found there
OsRename(d, old, new) ==
    IF old = new THEN d
    ELSE IF old \in DOMAIN d THEN Put(Drop(d, old), new, d[old])
    ELSE IF new \in DOMAIN d THEN [d EXCEPT ![new].touched = TRUE]
    ELSE d

\* sync_out writes the file and forgets to record its hash
WriteFileNoHash(w, sanitized, content) ==
    [w EXCEPT !.disk = Put(@, sanitized, Written(content)),
              !.mtimes = Put(@, sanitized, Recorded)]

\* sync_out: write the content to the file and record its hash and mtime
WriteFile(w, sanitized, content) ==
    [w EXCEPT !.disk = Put(@, sanitized, Written(content)),
              !.hashes = Put(@, sanitized, Hash(content)),
              !.mtimes = Put(@, sanitized, Recorded)]

\* sync_out writes every file, whatever hash is recorded
NeedsWriteAlways(recorded, content_hash) == TRUE

\* workspace.py:178  if self._hashes.get(sanitized) != content_hash
NeedsWrite(recorded, content_hash) == recorded # content_hash

\* sync_out: the entries of _name_map that a new name may be a rename of
RenameCandidates(w, current_names, content_hash) ==
    {i \in 1..Len(w.name_map) :
        /\ w.name_map[i].name \notin current_names
        /\ Get(w.hashes, w.name_map[i].san, NoHash) = content_hash}

\* sync_out: the body of the loop for the text block called name
SyncOutText(st, name, old_reverse, current_names) ==
    LET w == st.w
        content == w.texts[name]
        content_hash == Hash(content)
        cands == IF name \in DOMAIN old_reverse THEN {}
                 ELSE RenameCandidates(w, current_names, content_hash)
        old_san == w.name_map[CHOOSE i \in cands : \A j \in cands : i <= j].san
        sanitized ==
            IF name \in DOMAIN old_reverse
            THEN UniqueSanitized(old_reverse[name], st.seen)
            ELSE UniqueSanitized(SanitizeName(name), st.seen)
        w1 == IF cands = {} THEN w
              ELSE [w EXCEPT
                      !.disk = OsRename(@, old_san, sanitized),
                      !.hashes = Put(Drop(@, old_san), sanitized,
                                     Get(w.hashes, old_san, NoHash)),
                      !.mtimes = Put(Drop(@, old_san), sanitized,
                                     Get(w.mtimes, old_san, 0)),
                      !.name_map = MapPop(@, old_san)]
        w2 == [w1 EXCEPT !.name_map = MapSet(@, sanitized, name)]
        write == NeedsWrite(Get(w2.hashes, sanitized, NoHash), content_hash)
        w3 == IF write THEN WriteFile(w2, sanitized, content) ELSE w2
    IN  IF cands # {} /\ RenameRaises(w.disk, old_san, sanitized)
        THEN [st EXCEPT !.raised = TRUE]
        ELSE
        [w |-> w3,
         raised |-> FALSE,
         seen |-> st.seen \cup {sanitized},
         written |-> st.written \cup (IF write THEN {sanitized} ELSE {}),
         renamed |-> st.renamed \cup (IF cands = {} THEN {}
                                       ELSE {<<old_san, sanitized>>})]

\* the one member of a set of one
Only(S) == CHOOSE x \in S : TRUE

\* sync_out: the loop over the text blocks, which an exception ends
RECURSIVE SyncOutLoop(_, _, _, _)
SyncOutLoop(st, todo, old_reverse, current_names) ==
    IF todo = <<>> \/ st.raised THEN st
    ELSE Only({SyncOutLoop(next, Tail(todo), old_reverse, current_names) :
                 next \in {SyncOutText(st, Head(todo), old_reverse,
                                       current_names)}})

\* sync_out: the mapped files whose text block no longer exists
Orphans(w, current_names) ==
    {w.name_map[i].san :
        i \in {j \in 1..Len(w.name_map) :
                 w.name_map[j].name \notin current_names}}

\* sync_out removes the orphaned files and keeps their recorded hashes
RemoveOrphansKeepsHashes(w, current_names) ==
    LET orphans == Orphans(w, current_names)
    IN  [w EXCEPT
           !.disk = [f \in DOMAIN @ \ orphans |-> @[f]],
           !.mtimes = [f \in DOMAIN @ \ orphans |-> @[f]],
           !.name_map = SelectSeq(@, LAMBDA e : e.name \in current_names)]

\* sync_out: remove the files of the text blocks that no longer exist
RemoveOrphans(w, current_names) ==
    LET orphans == Orphans(w, current_names)
    IN  [w EXCEPT
           !.disk = [f \in DOMAIN @ \ orphans |-> @[f]],
           !.hashes = [f \in DOMAIN @ \ orphans |-> @[f]],
           !.mtimes = [f \in DOMAIN @ \ orphans |-> @[f]],
           !.name_map = SelectSeq(@, LAMBDA e : e.name \in current_names)]

\* Workspace.sync_out as a function of the state
SyncOutOf(w) ==
    LET current_names == DOMAIN w.texts
    IN  Only({[w |-> IF st.raised THEN st.w
                         ELSE RemoveOrphans(st.w, current_names),
               raised |-> st.raised,
               written |-> st.written, renamed |-> st.renamed,
               removed |-> IF st.raised THEN {}
                           ELSE Orphans(st.w, current_names)] :
                st \in {SyncOutLoop([w |-> w, raised |-> FALSE, seen |-> {},
                                     written |-> {}, renamed |-> {}],
                                    SortedNames(current_names),
                                    OldReverse(w.name_map), current_names)}})

\* the files sync_back and poll_changes look at
Listed(w) == {f \in DOMAIN w.disk : f[1] # "."}

\* the files whose content differs from the recorded hash
Changed(w) ==
    {f \in Listed(w) : Get(w.hashes, f, NoHash) # Hash(w.disk[f].content)}

\* sync_back: the body of the loop for one file
SyncBackFile(st, filename) ==
    LET w == st.w
        content == w.disk[filename].content
        content_hash == Hash(content)
        blender_name == MapGet(w.name_map, filename, filename)
        action == IF blender_name \in DOMAIN w.texts
                  THEN "modified" ELSE "created"
    IN  IF Get(w.hashes, filename, NoHash) = content_hash THEN st
        ELSE [w |-> [w EXCEPT
                       !.texts = Put(@, blender_name, content),
                       !.disk[filename].touched = FALSE,
                       !.hashes = Put(@, filename, content_hash),
                       !.mtimes = Put(@, filename, Recorded),
                       !.name_map = MapSet(@, filename, blender_name)],
              changes |-> Append(st.changes,
                                 [action |-> action, name |-> blender_name])]

\* sync_back: the loop over the files
RECURSIVE SyncBackLoop(_, _)
SyncBackLoop(st, entries) ==
    IF entries = <<>> THEN st
    ELSE Only({SyncBackLoop(next, Tail(entries)) :
                 next \in {SyncBackFile(st, Head(entries))}})

\* sync_back also deletes the text blocks whose file is gone
SyncBackDeleting(w, entries) ==
    LET r == SyncBackLoop([w |-> w, changes |-> <<>>], entries)
        gone == {name \in DOMAIN r.w.texts :
                    \E f \in FilesOf(r.w.name_map, name) : f \notin DOMAIN r.w.disk}
    IN  [r EXCEPT !.w.texts = [name \in DOMAIN @ \ gone |-> @[name]]]

\* Workspace.sync_back as a function of the state and of the order in which
\* os.listdir gives the files that changed (the others are skipped)
SyncBackOf(w, entries) == SyncBackLoop([w |-> w, changes |-> <<>>], entries)

\* the orders in which os.listdir may give a set of files
RECURSIVE Perms(_)
Perms(S) ==
    IF S = {} THEN {<<>>}
    ELSE UNION {{<<x>> \o p : p \in Perms(S \ {x})} : x \in S}

\* poll_changes: the files whose mtime differs from the recorded one
Touched(w) ==
    {f \in Listed(w) : w.disk[f].touched \/ Get(w.mtimes, f, 0) # Recorded}

\* poll_changes: the check of the Blender side
BlenderChanged(w) ==
    \E name \in DOMAIN w.texts :
        LET is == {i \in 1..Len(w.name_map) : w.name_map[i].name = name}
        IN  \/ is = {}
            \/ Hash(w.texts[name])
                 # Get(w.hashes,
                       w.name_map[CHOOSE i \in is : \A j \in is : i <= j].san,
                       NoHash)

\* poll_changes takes every file with another mtime for changed
DiskChangedByMtime(w) == Touched(w) # {}

\* poll_changes: the check of the disk side, a file with another mtime and
\* another hash
DiskChanged(w) == Touched(w) \cap Changed(w) # {}

\* something on the disk waits to be read back
Pending(w) == Changed(w) # {}

\* the disk is not as the workspace left it: a file was created, edited or
\* deleted from outside and the workspace has not recorded it
Disturbed(w) == Pending(w) \/ \E f \in DOMAIN w.hashes : f \notin DOMAIN w.disk

\* the two sides agree: every text block has one file, which holds its
\* content under the recorded hash, and there is nothing else
Synced(w) ==
    /\ ~Pending(w)
    /\ MapNames(w.name_map) = DOMAIN w.texts
    /\ Listed(w) = MapFiles(w.name_map)
    /\ \A name \in DOMAIN w.texts :
          \E f \in Listed(w) :
              /\ FilesOf(w.name_map, name) = {f}
              /\ Get(w.hashes, f, NoHash) = Hash(w.texts[name])
              /\ f \notin Touched(w)

\* the new state of the workspace and of the text blocks
Commit(w) ==
    /\ texts' = w.texts
    /\ disk' = w.disk
    /\ hashes' = w.hashes
    /\ name_map' = w.name_map
    /\ mtimes' = w.mtimes

\* everything but the workspace
progVars == <<hostVars, sharedVars, tickVars, workerVars, historyVars, brVars,
              sessVars>>

\* the user creates a text block
CreateText(name, content) ==
    /\ nops < MaxOps
    /\ nops' = nops + 1
    /\ name \notin DOMAIN texts
    /\ Cardinality(DOMAIN texts) < MaxTexts
    /\ Commit([WS EXCEPT !.texts = Put(@, name, content)])
    /\ ws_op' = "user"
    /\ ws_pre' = FALSE
    /\ UNCHANGED <<changes, written, renamed, removed, ext_created, progVars, editVars, restVars, win32>>

\* the user edits a text block
EditText(name, content) ==
    /\ nops < MaxOps
    /\ nops' = nops + 1
    /\ name \in DOMAIN texts
    /\ content # texts[name]
    /\ Commit([WS EXCEPT !.texts[name] = content])
    /\ ws_op' = "user"
    /\ ws_pre' = FALSE
    /\ UNCHANGED <<changes, written, renamed, removed, ext_created, progVars, editVars, restVars, win32>>

\* the user renames a text block
RenameText(name, to) ==
    /\ nops < MaxOps
    /\ nops' = nops + 1
    /\ name \in DOMAIN texts
    /\ to \notin DOMAIN texts
    /\ Commit([WS EXCEPT !.texts = Put(Drop(@, name), to, texts[name])])
    /\ ws_op' = "rename"
    /\ ws_pre' = FALSE
    /\ UNCHANGED <<changes, written, renamed, removed, ext_created, progVars, editVars, restVars, win32>>

\* the user deletes a text block
DeleteText(name) ==
    /\ nops < MaxOps
    /\ nops' = nops + 1
    /\ name \in DOMAIN texts
    /\ Commit([WS EXCEPT !.texts = Drop(@, name)])
    /\ ws_op' = "user"
    /\ ws_pre' = FALSE
    /\ UNCHANGED <<changes, written, renamed, removed, ext_created, progVars, editVars, restVars, win32>>

\* an external tool writes a file of the workspace directory, with a new
\* content or with the content it has
ExtWrite(filename, content) ==
    /\ nops < MaxOps
    /\ nops' = nops + 1
    /\ Commit([WS EXCEPT !.disk = Put(@, filename, Foreign(content))])
    /\ ext_created' = (ext_created \/ filename \notin DOMAIN disk)
    /\ ws_op' = "ext"
    /\ ws_pre' = FALSE
    /\ UNCHANGED <<changes, written, renamed, removed, progVars, editVars, restVars, win32>>

\* an external tool deletes a file of the workspace directory
ExtDelete(filename) ==
    /\ nops < MaxOps
    /\ nops' = nops + 1
    /\ filename \in DOMAIN disk
    /\ Commit([WS EXCEPT !.disk = Drop(@, filename)])
    /\ ws_op' = "ext"
    /\ ws_pre' = FALSE
    /\ UNCHANGED <<changes, written, renamed, removed, ext_created, progVars, editVars, restVars, win32>>

\* Workspace.sync_out
SyncOut ==
    /\ \E r \in {SyncOutOf(WS)} :
          /\ Commit(r.w)
          /\ written' = r.written
          /\ renamed' = r.renamed
          /\ removed' = r.removed
          /\ ws_op' = IF r.raised THEN "sync_out_raised" ELSE "sync_out"
    /\ ws_pre' = Disturbed(WS)
    /\ UNCHANGED <<changes, ext_created, progVars, editVars, restVars, win32, nops>>

\* Workspace.sync_back
SyncBack ==
    \E entries \in Perms(Changed(WS)) :
        \E r \in {SyncBackOf(WS, entries)} :
            /\ Commit(r.w)
            /\ changes' = r.changes
            /\ ws_op' = "sync_back"
            /\ ws_pre' = (ws_op = "sync_out" /\ ~ws_pre)
            /\ UNCHANGED <<written, renamed, removed, ext_created, progVars, editVars, restVars, win32, nops>>

\* Workspace.poll_changes: the files listed before the first changed one
\* get their mtime recorded; then sync_out and sync_back if a side changed,
\* unless sync_out raises
PollChanges ==
    LET equal == Touched(WS) \ Changed(WS)
        disk_changed == DiskChanged(WS)
    IN  \E seen \in SUBSET equal :
            /\ ~disk_changed => seen = equal
            /\ \E w0 \in {[WS EXCEPT
                              !.disk = [f \in DOMAIN @ |->
                                 IF f \in seen THEN Written(@[f].content)
                                 ELSE @[f]],
                              !.mtimes = [f \in DOMAIN @ \cup seen |->
                                 IF f \in seen THEN Recorded ELSE @[f]]]} :
                   IF ~disk_changed /\ ~BlenderChanged(w0)
                   THEN /\ Commit(w0)
                        /\ ws_op' = "poll_idle"
                        /\ UNCHANGED <<changes, written, renamed, removed>>
                   ELSE \E out \in {SyncOutOf(w0)} :
                        /\ written' = out.written
                        /\ renamed' = out.renamed
                        /\ removed' = out.removed
                        /\ IF out.raised
                           THEN /\ Commit(out.w)
                                /\ ws_op' = "poll_raised"
                                /\ UNCHANGED changes
                           ELSE \E entries \in Perms(Changed(out.w)) :
                                \E r \in {SyncBackOf(out.w, entries)} :
                                   /\ Commit(r.w)
                                   /\ ws_op' = "poll_changes"
                                   /\ changes' = r.changes
            /\ ws_pre' = (Touched(WS) # {})
            /\ UNCHANGED <<ext_created, progVars, editVars, restVars, win32, nops>>

NextWS ==
    \/ \E name \in BufferNames, content \in Contents : CreateText(name, content)
    \/ \E name \in DOMAIN texts, content \in Contents : EditText(name, content)
    \/ \E name \in DOMAIN texts, to \in BufferNames : RenameText(name, to)
    \/ \E name \in DOMAIN texts : DeleteText(name)
    \/ \E filename \in DOMAIN disk \cup ExtFiles :
          \E content \in ExtContents \cup {disk[f].content : f \in {filename} \cap DOMAIN disk} :
              ExtWrite(filename, content)
    \/ \E filename \in DOMAIN disk : ExtDelete(filename)
    \/ SyncOut
    \/ SyncBack
    \/ PollChanges

SpecWS == InitWS /\ [][NextWS]_vars

\* the text blocks of the file that is open when the workspace is created
OpenFiles ==
    { {<<"a", "_", "b">>}, {<<"a", "/", "b">>, <<"a", "_", "b">>} }

\* workspace.py:70-81: a new workspace, in a session whose file has text
\* blocks already
InitWSOpen ==
    /\ timer_registered = TRUE
    /\ win32 = FALSE
    /\ \E S \in OpenFiles : texts = [name \in S |-> 1]
    /\ edit_result = NoResult
    /\ queue = <<>>
    /\ nenq = 0
    /\ InitState

SpecWSOpen == InitWSOpen /\ [][NextWS]_vars

(***************************************************************************)
(* tools.py:417-471  _tool_edit_text_block.  A text is a sequence of        *)
(* characters.                                                             *)
(***************************************************************************)
Alphabet == {"a", "b"}

\* the texts of at most n characters
StringsUpTo(n) == UNION {[1..k -> Alphabet] : k \in 0..n}

\* the name of the text block that exists, the name of one that does not,
\* and no name
EditNames == {<<"t">>, <<"u">>, <<>>}

\* old_string and new_string of a call
EditStrings == StringsUpTo(2)

\* old is in content at position i
MatchAt(content, old, i) ==
    /\ i + Len(old) - 1 <= Len(content)
    /\ SubSeq(content, i, i + Len(old) - 1) = old

\* tools.py:436  content.count(old_string) for a non-empty old_string: the
\* occurrences found from left to right, each search starting after the end
\* of the occurrence before
RECURSIVE CountFrom(_, _, _)
CountFrom(content, old, i) ==
    IF i + Len(old) - 1 > Len(content) THEN 0
    ELSE IF MatchAt(content, old, i)
         THEN 1 + CountFrom(content, old, i + Len(old))
         ELSE CountFrom(content, old, i + 1)

\* tools.py:449  content.replace(old_string, new_string, 1): the leftmost
\* occurrence is replaced
ReplaceFirst(content, old, new) ==
    LET at == {i \in 1..Len(content) : MatchAt(content, old, i)}
        i == CHOOSE j \in at : \A k \in at : j <= k
    IN  IF at = {} THEN content
        ELSE SubSeq(content, 1, i - 1) \o new
                 \o SubSeq(content, i + Len(old), Len(content))

\* the result of a call, with its arguments
EditResult(kind, count, name, old, new) ==
    [kind |-> kind, count |-> count, name |-> name, old_string |-> old,
     new_string |-> new]

\* tools.py:417-471  _tool_edit_text_block as a function of the text blocks
\* and of the arguments: the text blocks after the call and what it returns
ToolEditTextBlock(txts, name, old, new) ==
    IF name = <<>>
    THEN [texts |-> txts, result |-> EditResult("no_name", 0, name, old, new)]
    ELSE IF old = <<>>
    THEN [texts |-> txts,
          result |-> EditResult("old_string_required", 0, name, old, new)]
    ELSE IF name \notin DOMAIN txts
    THEN [texts |-> txts,
          result |-> EditResult("text_not_found", 0, name, old, new)]
    ELSE LET count == CountFrom(txts[name], old, 1) IN
         IF count = 0
         THEN [texts |-> txts,
               result |-> EditResult("not_found", count, name, old, new)]
         ELSE IF count > 1
         THEN [texts |-> txts,
               result |-> EditResult("matches", count, name, old, new)]
         ELSE [texts |-> [txts EXCEPT ![name] = ReplaceFirst(@, old, new)],
               result |-> EditResult("edited", count, name, old, new)]

\* the text block "t" of the open file holds any text
InitEdit ==
    /\ timer_registered = TRUE
    /\ win32 = FALSE
    /\ texts \in [{<<"t">>} -> StringsUpTo(MaxLen)]
    /\ edit_result = NoResult
    /\ queue = <<>>
    /\ nenq = 0
    /\ InitState

\* the owner thread runs the edit tool; the model keeps the text blocks at
\* MaxLen characters
EditTextBlock(name, old, new) ==
    /\ \E r \in {ToolEditTextBlock(texts, name, old, new)} :
          /\ \A n \in DOMAIN r.texts : Len(r.texts[n]) <= MaxLen
          /\ texts' = r.texts
          /\ edit_result' = r.result
    /\ UNCHANGED <<progVars, disk, hashes, name_map, mtimes, changes, written,
                   renamed, removed, ws_op, ws_pre, win32, ext_created, nops,
                   restVars>>

NextEdit ==
    \E name \in EditNames, old \in EditStrings, new \in EditStrings :
        EditTextBlock(name, old, new)

SpecEdit == InitEdit /\ [][NextEdit]_vars

(***************************************************************************)
(* The add-on over several prompts: the operators, the terminal            *)
(* notifications, and each generation thread reduced to the steps that     *)
(* touch the shared state (the session id, the queue).                     *)
(***************************************************************************)
\* a generation thread that has just been started
NewWorker(b, messages) ==
    [backend |-> b, pc |-> "start", resume |-> "", messages |-> messages]

\* a thread that has returned: its locals are gone
Returned(b) == [NewWorker(b, <<>>) EXCEPT !.pc = "done"]

\* the threads that have not returned
Running == {w \in DOMAIN workers : workers[w].pc # "done"}

\* operators.py:461-463  if state.is_generating: ... return {"CANCELLED"}
Rejects(generating) == generating

\* CLAUDE_OT_SendPrompt.execute (operators.py:435-536) with backend b, any
\* number of times: rejected while a generation is active, else the prompt
\* goes to the history, the flag is cleared and a thread is started
SendPromptExecute(b) ==
    /\ timer_registered
    /\ nsubmit < MaxSubmits
    /\ nsubmit' = nsubmit + 1
    /\ IF Rejects(is_generating)
       THEN UNCHANGED <<hostVars, cancel_flag, workers, sessions>>
       ELSE /\ conversation_history' = Append(conversation_history, UserPrompt)
            /\ is_generating' = TRUE
            /\ ui_streaming_text' = <<>>
            /\ cancel_flag' = FALSE
            /\ workers' = Append(workers, NewWorker(b, conversation_history'))
            /\ sessions' = sessions + 1
    /\ UNCHANGED <<session_id, queue, streaming_text, holders, tickVars,
                   backend, pc, iteration, current_messages, text_content, tool_uses,
                   stop_reason, tool_results, tu, holder, cont, cur_event,
                   final_text, nevents, requests, ntools, terminals, delivered,
                   toolRuns, submitted, terminated>>
    /\ UNCHANGED <<brVars, wsVars, editVars, restVars>>

\* cli.py:165-168: stream_response builds the command line; --resume is
\* given with the retained session id unless there is none
WorkerInvoke(w) ==
    /\ workers[w].backend = "CLI"
    /\ workers[w].pc = "start"
    /\ workers' = [workers EXCEPT ![w].pc = "stream", ![w].resume = session_id]
    /\ UNCHANGED <<hostVars, sharedVars, tickVars, workerVars, historyVars,
                   brVars, wsVars, nsubmit, editVars, restVars>>

\* the lines that carry a session id or the lack of one
SessionLines ==
    {l \in CLILines : l.type \in {"session_init", "result"} /\ ~l.has_text}

\* cli.py:203-250: the decoder of thread w takes a line of the subprocess
WorkerLine(w, l) ==
    /\ workers[w].pc = "stream"
    /\ ~DecoderCancelled
    /\ nevents < MaxEvents
    /\ nevents' = nevents + 1
    /\ cur_event' = l
    /\ session_id' = NewSessionId(session_id, l.sid)
    /\ UNCHANGED <<hostVars, cancel_flag, queue, streaming_text, holders,
                   tickVars, backend, pc, iteration, current_messages,
                   text_content, tool_uses, stop_reason, tool_results, tu,
                   holder, cont, final_text, historyVars, brVars, wsVars,
                   sessVars, editVars, restVars>>

\* the terminal notifications thread w can end with: a completion once it
\* has a response, an error, a cancellation when the flag is set
WorkerOutcomes(w) ==
    {OnErrorUnit("error")}
    \cup (IF cancel_flag THEN {OnCancelledUnit} ELSE {})
    \cup (IF workers[w].backend = "API"
          THEN {OnCompleteUnit(<<"r">>,
                    Append(workers[w].messages,
                           Message("assistant", <<TextBlock(<<"r">>)>>)))}
          ELSE IF workers[w].pc = "stream"
          THEN {OnCompleteUnit(<<"r">>,
                    CLIFinalMessages(conversation_history, <<"r">>))}
          ELSE {})

\* operators.py:95-232, 239-357: thread w schedules its terminal
\* notification and leaves its function; a thread that was reading the
\* subprocess still has the generator of stream_response to close
WorkerFinish(w, u) ==
    /\ workers[w].pc \in {"start", "stream"}
    /\ u \in WorkerOutcomes(w)
    /\ queue' = Schedule(queue, u)
    /\ workers' = [workers EXCEPT
                      ![w] = IF @.pc = "stream"
                             THEN [@ EXCEPT !.pc = "closing", !.messages = <<>>]
                             ELSE Returned(@.backend)]
    /\ UNCHANGED <<hostVars, cancel_flag, session_id, streaming_text, holders,
                   tickVars, workerVars, historyVars, brVars, wsVars, nsubmit,
                   editVars, restVars>>

\* cli.py:254-264  finally: the pipes are closed and the subprocess is
\* waited for (5 s, then killed); then thread w has returned
WorkerReturn(w) ==
    /\ workers[w].pc = "closing"
    /\ workers' = [workers EXCEPT ![w] = Returned(@.backend)]
    /\ UNCHANGED <<hostVars, sharedVars, tickVars, workerVars, historyVars,
                   brVars, wsVars, nsubmit, editVars, restVars>>

\* bridge.py:92-106: the timer callback runs the next terminal notification
Deliver ==
    /\ TimerRuns(timer_registered)
    /\ queue # <<>>
    /\ queue' = Tail(queue)
    /\ IF Head(queue).kind = "on_complete"
       THEN OnComplete(Head(queue))
       ELSE OnErrorOrCancelled
    /\ UNCHANGED <<cancel_flag, session_id, holders, tickVars, workerVars,
                   historyVars, brVars, wsVars, sessVars, editVars, restVars>>

\* CLAUDE_OT_ClearHistory (operators.py:639-642), clear_conversation
\* (properties.py:112-120)
ClearHistory ==
    /\ timer_registered
    /\ conversation_history' = <<>>
    /\ ui_streaming_text' = <<>>
    /\ UNCHANGED <<is_generating, sharedVars, tickVars, workerVars,
                   historyVars, brVars, wsVars, sessVars, editVars, restVars>>

\* __init__.py:56-68  unregister: the bridge stops and drops what is queued,
\* the flag is set, the thread is waited for 2 s at most, clear_session
AddonUnregister ==
    /\ timer_registered
    /\ nunreg < MaxUnregister
    /\ nunreg' = nunreg + 1
    /\ timer_registered' = FALSE
    /\ queue' = <<>>
    /\ cancel_flag' = TRUE
    /\ session_id' = ""
    /\ UNCHANGED <<hostVars, streaming_text, holders, tick_pc, processed,
                   workerVars, historyVars, callers, unreg_pc, nenq, ran,
                   caught, wsVars, sessVars, editVars, restVars>>

\* __init__.py:44-54  register
AddonRegister ==
    /\ ~timer_registered
    /\ timer_registered' = TRUE
    /\ UNCHANGED <<hostVars, sharedVars, tick_pc, processed, workerVars,
                   historyVars, brVars, wsVars, sessVars, editVars, restVars>>

NextAddon ==
    \/ SendPromptExecute("API") \/ SendPromptExecute("CLI")
    \/ Stop
    \/ \E w \in DOMAIN workers :
          \/ WorkerInvoke(w)
          \/ \E l \in SessionLines : WorkerLine(w, l)
          \/ \E u \in WorkerOutcomes(w) : WorkerFinish(w, u)
          \/ WorkerReturn(w)
    \/ Deliver
    \/ ClearHistory
    \/ AddonUnregister
    \/ AddonRegister

SpecAddon == Init /\ [][NextAddon]_vars



(***************************************************************************)
(* Properties.                                                             *)
(***************************************************************************)
\* the worker thread has returned (or died of an exception)
WorkerEnded == pc \in {"done", "dead"}

\* terminal notifications waiting in the bridge queue
QueuedTerminals ==
    Cardinality({i \in 1..Len(queue) : queue[i].kind \in TerminalKinds})

\* the wrapper of holder h is still queued: its work has not run
WorkQueued(h) ==
    \E i \in 1..Len(queue) : queue[i].kind = "wrapper" /\ queue[i].h = h

\* C1: every generation session produces exactly one terminal outcome: at
\* no time has the worker (API or CLI) scheduled more than one of complete /
\* error / cancelled, once its thread has ended it has scheduled exactly
\* one, and the queue holds exactly the scheduled ones not yet run.
C1_ExactlyOneTerminal ==
    /\ Len(terminals) <= 1
    /\ WorkerEnded => Len(terminals) = 1
    /\ Len(terminals) = 1 => pc = "done"
    /\ \A i \in 1..Len(terminals) : terminals[i].kind \in TerminalKinds
    /\ QueuedTerminals + Len(delivered) = Len(terminals)

C1_Witness ==
    /\ backend = "API"
    /\ pc = "done"
    /\ requests = MaxIterations
    /\ Len(toolRuns) > 0
    /\ Len(delivered) = 1

\* C2: in the API-style loop cancellation always wins: a session whose flag
\* was set before its terminal notification was scheduled never completes
\* and never ends with "Reached maximum tool iterations".
C2_CancelWinsOverCompletion ==
    \A i \in 1..Len(terminals) :
        (backend = "API" /\ terminals[i].flag) =>
            /\ terminals[i].kind # "on_complete"
            /\ terminals[i].msg # ErrMaxIterations

\* C3: in the CLI-style flow cancellation always wins: once the decoder has
\* stopped the stream because the flag was set, the session's terminal
\* outcome is cancelled.
C3_CLICancelWins ==
    \A i \in 1..Len(terminals) :
        (backend = "CLI" /\ terminated) => terminals[i].kind = "on_cancelled"

\* C4: once the worker has observed the flag (and scheduled the cancelled
\* outcome) no tool handler of the session runs on the owner thread any more.
C4_NoToolAfterCancelObserved ==
    [][(\E i \in 1..Len(terminals) : terminals[i].kind = "on_cancelled")
        => \/ toolRuns' = toolRuns
           \/ toolRuns'[Len(toolRuns')].kind = "unknown_tool"]_vars

\* the rounds the API loop has gone through to their end: each appended an
\* assistant message with tool calls and the user message with the results
RoundsCompleted == (Len(current_messages) - Len(submitted)) \div 2

\* C5: the session never makes more than max_iterations streaming requests,
\* and a session in which every one of the max_iterations rounds ended with
\* tool calls made exactly max_iterations requests and scheduled the one
\* error "Reached maximum tool iterations", and no completion.
C5_MaxIterations ==
    /\ requests <= MaxIterations
    /\ (backend = "API" /\ WorkerEnded
        /\ Len(current_messages) = Len(submitted) + 2 * MaxIterations) =>
           /\ requests = MaxIterations
           /\ Len(terminals) = 1
           /\ terminals[1].kind = "on_error"
           /\ terminals[1].msg = ErrMaxIterations

C5_Witness ==
    /\ backend = "API"
    /\ RoundsCompleted = MaxIterations
    /\ delivered = <<[kind |-> "on_error", msg |-> ErrMaxIterations]>>

\* the worker is inside the for loop of operators.py:181-220
InToolLoop == pc = "tool_top" \/ (pc \in {"wait", "wait_check"} /\ cont = "tool")

\* the tool_use blocks of a message, in order
ToolUsesOf(m) == SelectSeq(m.content, LAMBDA b : b.type = "tool_use")

\* C6: after the completion notification of an API-style session has run on
\* the owner thread, the shared history is the history at submission
\* followed, in order, by the assistant message and the tool-result user
\* message of every round, and last the assistant message with the final
\* text.
C6_HistoryAfterCompletion ==
    (backend = "API" /\ delivered # <<>> /\ delivered[1].kind = "on_complete") =>
        LET n == Len(submitted) IN
        /\ conversation_history = current_messages
        /\ Len(conversation_history) = n + 2 * iteration + 1
        /\ SubSeq(conversation_history, 1, n) = submitted
        /\ \A k \in 1..iteration :
              /\ conversation_history[n + 2 * k - 1].role = "assistant"
              /\ ToolUsesOf(conversation_history[n + 2 * k - 1]) # <<>>
              /\ conversation_history[n + 2 * k].role = "user"
        /\ conversation_history[Len(conversation_history)] =
               AssistantMessage(text_content, tool_uses)

\* the messages of the errors a streaming round can end with
ProtocolErrors == {"api_error", "stream_error", "stream_exception"}

\* C7: a failing tool execution never fails the session: the worker thread
\* never dies of it, an error outcome only ever reports a protocol error or
\* the exhausted iteration bound, every result collected so far belongs to
\* its call and is either the timeout payload or the payload the owner
\* thread produced for that call (the error payload when the handler raised
\* or the name was unknown), and the user message of a round holds a result
\* for every tool call of the round.
C7_ToolFailureIsResult ==
    backend = "API" =>
        /\ pc # "dead"
        /\ \A i \in 1..Len(terminals) :
              terminals[i].kind = "on_error" =>
                  terminals[i].msg \in ProtocolErrors \cup {ErrMaxIterations}
        /\ InToolLoop => Len(tool_results) = tu - 1
        /\ \A k \in 1..Len(tool_results) :
              LET c == tool_results[k].content IN
              InToolLoop =>
              /\ tool_results[k].id = tool_uses[k].id
              /\ \/ c.kind = "timeout"
                 \/ /\ c.id = tool_uses[k].id
                    /\ \E j \in 1..Len(toolRuns) : toolRuns[j] = c
        /\ \A p \in (Len(submitted) + 1)..Len(current_messages) :
              current_messages[p].role = "user" =>
                  Len(current_messages[p].content) =
                      Len(ToolUsesOf(current_messages[p - 1]))

C7_Witness ==
    /\ backend = "API"
    /\ requests = 2
    /\ pc = "streaming"
    /\ Len(current_messages) = Len(submitted) + 2
    /\ Len(current_messages[Len(current_messages)].content) = 2
    /\ current_messages[Len(current_messages)].content[1].content.kind = "timeout"
    /\ current_messages[Len(current_messages)].content[2].content.kind
           \in {"handler_error", "unknown_tool"}

\* C8: tool calls are run on the owner thread in the order in which their
\* tool-call-complete events arrived, and the user message appended after a
\* round holds exactly one tool_result per tool call of the round, with the
\* call's id, in that order.
C8_ToolOrder ==
    backend = "API" =>
        /\ \A j \in 1..Len(toolRuns) : toolRuns[j].id = [s |-> sessions, n |-> j]
        /\ \A k \in 1..Len(tool_uses) : \A l \in 1..Len(tool_uses) :
              k < l => tool_uses[k].id.n < tool_uses[l].id.n
        /\ \A k \in 1..Len(tool_results) :
              InToolLoop => tool_results[k].id = tool_uses[k].id
        /\ \A p \in (Len(submitted) + 1)..Len(current_messages) :
              current_messages[p].role = "user" =>
                  LET calls == ToolUsesOf(current_messages[p - 1])
                      res == current_messages[p].content
                  IN /\ Len(res) = Len(calls)
                     /\ \A k \in 1..Len(res) :
                           /\ res[k].type = "tool_result"
                           /\ res[k].id = calls[k].id

C8_Witness ==
    /\ backend = "API"
    /\ Len(toolRuns) = 2
    /\ Len(current_messages) = Len(submitted) + 2
    /\ Len(current_messages[Len(current_messages)].content) = 2

\* C9: when an API-style round ends with a protocol error (an error event
\* or an exception of the request), the session ends with the error
\* notification carrying that message: a request or a stream that ends the
\* session while the flag is clear ends it with a protocol error; once the
\* error is scheduled the worker has returned, the failing request was its
\* last, no tool call collected in that round is run, and the shared
\* history stays as it was at submission, also once the notification has
\* run.
C9_ProtocolError ==
    /\ [](\A i \in 1..Len(terminals) :
            (backend = "API" /\ terminals[i].kind = "on_error"
             /\ terminals[i].msg \in ProtocolErrors) =>
                /\ pc = "done"
                /\ requests = iteration + 1
                /\ \A k \in 1..Len(tool_uses) : \A j \in 1..Len(toolRuns) :
                      toolRuns[j].id # tool_uses[k].id
                /\ conversation_history = submitted
                /\ delivered \in {<<>>, <<[kind |-> "on_error",
                                           msg |-> terminals[i].msg]>>})
    /\ [][(backend = "API" /\ pc \in {"request", "streaming"} /\ pc' = "done"
           /\ ~cancel_flag) =>
              /\ Len(terminals') = 1
              /\ terminals'[1].kind = "on_error"
              /\ terminals'[1].msg \in ProtocolErrors
              /\ requests' = iteration + 1]_vars

C9_Witness ==
    /\ backend = "API"
    /\ delivered = <<[kind |-> "on_error", msg |-> "stream_error"]>>
    /\ tool_uses # <<>>

\* C10: what a caller gets from the handle of execute_on_main once its wait
\* is over: a return value only if the work has run and returned (for a tool
\* call, the payload the owner thread produced for this very call), the
\* work's error only if it has run and raised, and the timeout failure
\* exactly when the work has not run; and the wait itself never blocks: it
\* can always return.
C10_Rendezvous ==
    /\ pc = "wait" => ENABLED EventWait
    /\ pc = "wait_check" =>
        LET out == HolderWait(holders[holder]) IN
        /\ (out.kind = "raise" /\ out.val.kind = "timeout") <=> WorkQueued(holder)
        /\ (out.kind = "return") =>
              /\ ~WorkQueued(holder)
              /\ IF cont = "tool"
                 THEN /\ out.val.id = tool_uses[tu].id
                      /\ \E j \in 1..Len(toolRuns) : toolRuns[j] = out.val
                 ELSE out.val.kind = "ws_ok"
        /\ (out.kind = "raise" /\ out.val.kind # "timeout") =>
              /\ ~WorkQueued(holder)
              /\ cont # "tool"
              /\ out.val.kind = "ws_error"

C10_Witness ==
    /\ pc = "wait_check"
    /\ cont = "sync_out"
    /\ HolderWait(holders[holder]).kind = "raise"
    /\ HolderWait(holders[holder]).val.kind = "ws_error"

\* the tickets of the units waiting in the queue, in queue order
QueueTickets == [i \in 1..Len(queue) |-> queue[i].id.n]

\* a sequence of numbers that grows strictly
Increasing(seq) == \A i \in 1..Len(seq) : \A j \in 1..Len(seq) : i < j => seq[i] < seq[j]

\* C11: the queue is drained in FIFO order: whatever the interleaving of
\* schedule and execute_on_main calls with the ticks, the units run in the
\* order of their enqueueing, the units still queued wait in that order and
\* were all enqueued after every unit that has run; and as long as nothing
\* was discarded by a teardown, the units run are exactly the first ones
\* enqueued and the queue holds exactly the rest.
C11_FIFO ==
    /\ Increasing(ran)
    /\ Increasing(QueueTickets)
    /\ \A i \in 1..Len(ran) : \A j \in 1..Len(queue) : ran[i] < QueueTickets[j]
    /\ (nunreg = 0 /\ unreg_pc = "idle") =>
          /\ ran = [i \in 1..Len(ran) |-> i]
          /\ QueueTickets = [j \in 1..Len(queue) |-> Len(ran) + j]
          /\ Len(ran) + Len(queue) = nenq

C11_Witness ==
    /\ nunreg = 0
    /\ Len(ran) = 3
    /\ tick_pc = "drain"
    /\ processed = 1
    /\ \E c \in Callers : callers[c].pc = "wait" /\ holders[callers[c].h].is_set

\* the tickets of the units whose exception the drain loop caught
CaughtTickets == {caught[i] : i \in 1..Len(caught)}

\* C12: an exception raised by a scheduled unit is caught and does not stop
\* the drain loop: the step that runs a raising unit leaves the callback
\* draining, the timer registered and the units behind it queued; the
\* callback stops draining only when the queue is empty or the batch bound
\* is reached, and until then the next unit can always be run.
C12_ExceptionCaught ==
    /\ [][caught' # caught =>
            /\ tick_pc' = "drain"
            /\ timer_registered'
            /\ queue' = Tail(queue)]_vars
    /\ [][(tick_pc = "drain" /\ tick_pc' = "idle") =>
            (queue = <<>> \/ processed >= BatchLimit)]_vars
    /\ []((tick_pc = "drain" /\ queue # <<>> /\ processed < BatchLimit) =>
            ENABLED TickItem)

C12_Witness ==
    /\ tick_pc = "drain"
    /\ timer_registered
    /\ processed >= 2
    /\ Len(ran) >= 2
    /\ ran[Len(ran) - 1] \in CaughtTickets
    /\ ran[Len(ran)] \notin CaughtTickets

\* C13: stopping the bridge stops the draining, idempotently, and is safe on
\* a bridge that was never started: while the bridge is not registered no
\* unit is run, whether it was queued before the stop or enqueued later;
\* every call of unregister, the second and the one on a bridge never
\* registered included, goes through without an error and returns with
\* the bridge not registered and the queue empty.
C13_UnregisterStops ==
    /\ [][~timer_registered => ran' = ran]_vars
    /\ [][(unreg_pc = "drain" /\ unreg_pc' = "idle") =>
            (~timer_registered' /\ queue' = <<>>)]_vars
    /\ [](unreg_pc = "drain" => (ENABLED UnregisterGet \/ ENABLED UnregisterEnd))
    /\ [](unreg_pc = "drain" => ~timer_registered /\ tick_pc = "idle")

C13_Witness ==
    /\ nunreg = 2
    /\ unreg_pc = "idle"
    /\ ~timer_registered
    /\ queue # <<>>
    /\ ran = <<>>

\* the teardown has run and has returned
TeardownDone == nunreg > 0 /\ unreg_pc = "idle" /\ ~timer_registered

\* C14: when the bridge is stopped while background callers are blocked on
\* handles whose work is queued, the teardown releases them: once
\* unregister has returned, no caller is still waiting on a handle whose
\* work was discarded (neither run nor queued any more).
C14_TeardownReleasesCallers ==
    TeardownDone =>
        \A c \in Callers :
            callers[c].pc = "wait" =>
                \/ holders[callers[c].h].is_set
                \/ WorkQueued(callers[c].h)

\* a step of sync_back taken right after sync_out
SyncBackAfterSyncOut == ws_op = "sync_out" /\ ws_op' = "sync_back"

\* sync_back did nothing: it reports no change, writes no text block and
\* changes no hash
SyncBackNoOp == changes' = <<>> /\ texts' = texts /\ hashes' = hashes

\* C15 as stated: sync_out followed immediately by sync_back is a no-op,
\* whatever the state of the workspace was before sync_out.
C15_SyncOutSyncBackNoOp == [][SyncBackAfterSyncOut => SyncBackNoOp]_vars

\* C15, amended: sync_out followed immediately by sync_back is a no-op when
\* the disk was as the workspace left it at the time sync_out began: no file
\* created, edited or deleted from outside since the workspace recorded it.
C15_NoOpWhenNothingPending ==
    [][(SyncBackAfterSyncOut /\ ~ws_pre) => SyncBackNoOp]_vars

\* C15: sync_back has run right after a sync_out that found the disk as the
\* workspace left it, over a workspace that holds two files
C15_Witness ==
    /\ ws_op = "sync_back"
    /\ ws_pre
    /\ Cardinality(DOMAIN texts) = 2
    /\ Cardinality(Listed(WS)) = 2

\* the workspace as it was before the text block called to got that name
\* in place of the name of the i-th entry of _name_map
BeforeRename(i, to) ==
    [WS EXCEPT !.texts = Put(Drop(@, to), name_map[i].name, texts[to])]

\* the last operation renamed a text block of a workspace whose two sides
\* agreed: the pairs of its entry of _name_map and of its new name
Renames ==
    {r \in (1..Len(name_map)) \X DOMAIN texts :
        /\ ws_op = "rename"
        /\ name_map[r[1]].name \notin DOMAIN texts
        /\ r[2] \notin MapNames(name_map)
        /\ Synced(BeforeRename(r[1], r[2]))}

\* a filename is the sanitized name, or the sanitized name with a suffix
SanitizedFrom(filename, name) ==
    LET sanitized == SanitizeName(name)
    IN  \/ filename = sanitized
        \/ \E i \in 2..9 : filename = Suffixed(sanitized, i)

\* C16: when a text block of a synced workspace is renamed with its content
\* unchanged, the next sync_out returns and has moved its file to the new
\* sanitized name (the same file, not written again), moves the recorded
\* hash and mtime with it, maps the new filename to the new name and nothing to the old
\* name, and leaves no second file for the text block.
C16_RenameMovesFile ==
    [][\A r \in Renames :
          ws_op' \in {"sync_out", "sync_out_raised"} =>
              LET old == name_map[r[1]].san
                  new == Only(FilesOf(name_map', r[2]))
              IN  /\ ws_op' = "sync_out"
                  /\ Cardinality(FilesOf(name_map', r[2])) = 1
                  /\ SanitizedFrom(new, r[2])
                  /\ new \in DOMAIN disk' /\ disk'[new] = disk[old]
                  /\ new \notin written'
                  /\ renamed' = {<<old, new>>}
                  /\ new \in DOMAIN hashes' /\ hashes'[new] = hashes[old]
                  /\ new \in DOMAIN mtimes' /\ mtimes'[new] = mtimes[old]
                  /\ name_map[r[1]].name \notin MapNames(name_map')
                  /\ old # new =>
                        \/ old \in MapFiles(name_map')
                        \/ /\ old \notin DOMAIN disk'
                           /\ old \notin DOMAIN hashes'
                           /\ old \notin DOMAIN mtimes']_vars

\* a sync operation that maps the text blocks has just returned
JustMapped == ws_op \in {"sync_out", "poll_changes"}

\* a filename begins with the sanitized name
BeginsWithSanitized(filename, name) ==
    LET sanitized == SanitizeName(name)
    IN  /\ Len(sanitized) <= Len(filename)
        /\ SubSeq(filename, 1, Len(sanitized)) = sanitized

\* C17: whatever text blocks were created, edited, renamed and deleted and
\* whatever sync operations ran in between (no file having been created
\* from outside), no filename is mapped twice and no text block has two
\* filenames; and when sync_out or a poll_changes that synced has just
\* returned, every text block has exactly one filename, which is its
\* sanitized name, with a suffix if that was taken.
C17_UniqueFilenames ==
    ~ext_created =>
        /\ \A i, j \in 1..Len(name_map) :
              i # j => /\ name_map[i].san # name_map[j].san
                       /\ name_map[i].name # name_map[j].name
        /\ JustMapped =>
              \A name \in DOMAIN texts :
                  /\ Cardinality(FilesOf(name_map, name)) = 1
                  /\ \A f \in FilesOf(name_map, name) :
                        BeginsWithSanitized(f, name)

\* C17: sync_out has just mapped three text blocks whose names all
\* sanitize to a_b, and no file was created from outside
C17_Witness ==
    /\ JustMapped
    /\ ~ext_created
    /\ DOMAIN texts = BufferNames \ {<<"c">>}
    /\ MapFiles(name_map) = {<<"a", "_", "b">>, <<"a", "_", "b", "_", "2">>,
                              <<"a", "_", "b", "_", "3">>}

\* the pairs of text blocks whose names sanitize to the same filename
Colliding ==
    {p \in (DOMAIN texts) \X (DOMAIN texts) :
        p[1] # p[2] /\ SanitizeName(p[1]) = SanitizeName(p[2])}

\* the text block has one file, and the recorded hash of that file is the
\* hash of the text block: the file was written from it or read into it
FileFrom(name) ==
    /\ Cardinality(FilesOf(name_map, name)) = 1
    /\ \A f \in FilesOf(name_map, name) :
          Get(hashes, f, NoHash) = Hash(texts[name])

\* C18, first part: when sync_out has returned, having found the disk as the
\* workspace left it, two text blocks with colliding names have two distinct
\* files, and each file holds the content of its text block
CollidingKeptApart ==
    (ws_op = "sync_out" /\ ~ws_pre) =>
        \A p \in Colliding :
            /\ FileFrom(p[1]) /\ FileFrom(p[2])
            /\ FilesOf(name_map, p[1]) # FilesOf(name_map, p[2])
            /\ \A f \in FilesOf(name_map, p[1]) :
                  f \in DOMAIN disk /\ disk[f].content = texts[p[1]]

\* C18, second part: sync_back writes an external edit of the file of one
\* of them into that text block, and leaves the other text block alone
\* unless its own file was edited too
EditReachesItsTextBlock ==
    \A p \in Colliding :
        (ws_op' = "sync_back" /\ FileFrom(p[1]) /\ FileFrom(p[2])) =>
            \A f \in FilesOf(name_map, p[1]), g \in FilesOf(name_map, p[2]) :
                /\ f \in Changed(WS) => texts'[p[1]] = disk[f].content
                /\ g \notin Changed(WS) => texts'[p[2]] = texts[p[2]]

\* C18, third part: a further sync_out, no text block having been created
\* or renamed since they got their files, leaves each of them its file
AssignmentKept ==
    \A p \in Colliding :
        (/\ ws_op' = "sync_out"
         /\ DOMAIN texts \subseteq MapNames(name_map)
         /\ Cardinality(FilesOf(name_map, p[1])) = 1
         /\ Cardinality(FilesOf(name_map, p[2])) = 1) =>
            FilesOf(name_map', p[1]) = FilesOf(name_map, p[1])

JustSynced == ws_op \in {"sync_out", "sync_back", "poll_changes", "poll_idle"}

\* C19: when sync_out, sync_back or poll_changes has just returned, every
\* filename with a recorded hash names a file of the workspace, and the hash
\* of the content of that file is the recorded hash.
C19_RecordedHashIsDiskHash ==
    JustSynced =>
        \A f \in DOMAIN hashes :
            f \in DOMAIN disk /\ Hash(disk[f].content) = hashes[f]

\* the text blocks that changed since the last sync while their file
\* changed too, to another content: the pairs of text block and file
BothChanged ==
    {c \in (DOMAIN texts) \X Listed(WS) :
        /\ FilesOf(name_map, c[1]) = {c[2]}
        /\ c[2] \in DOMAIN hashes
        /\ Hash(texts[c[1]]) # hashes[c[2]]
        /\ Hash(disk[c[2]].content) # hashes[c[2]]
        /\ disk[c[2]].content # texts[c[1]]}

\* C20: when a text block and its file have both changed since the last
\* sync, to different contents, poll_changes leaves the content of the file
\* in the text block and in the file.
C20_DiskWins ==
    [][\A c \in BothChanged :
          ws_op' \in {"poll_changes", "poll_idle", "poll_raised"} =>
              /\ texts'[c[1]] = disk[c[2]].content
              /\ c[2] \in DOMAIN disk'
              /\ disk'[c[2]].content = disk[c[2]].content]_vars

\* the workspace with every file as the workspace wrote it
Untouched(w) ==
    [w EXCEPT !.disk = [f \in DOMAIN @ |-> Written(@[f].content)]]

\* the two sides agree, but a file was written again from outside with the
\* content it had
RewrittenOnly == Synced(Untouched(WS)) /\ Touched(WS) # {}

\* a call of poll_changes
PollStep == ws_op' \in {"poll_idle", "poll_changes", "poll_raised"}

\* C21: when the two sides agree and a file was rewritten from outside with
\* the content it had, poll_changes runs no sync_out and no sync_back and
\* returns False; it changes no text block, no recorded hash, no name and no
\* file content, and records the new mtime of the file.
C21_SameContentIsNoChange ==
    [][(RewrittenOnly /\ PollStep) =>
          /\ ws_op' = "poll_idle"
          /\ texts' = texts
          /\ hashes' = hashes
          /\ name_map' = name_map
          /\ DOMAIN disk' = DOMAIN disk
          /\ \A f \in DOMAIN disk : disk'[f].content = disk[f].content
          /\ Touched(WS') = {}
          /\ UNCHANGED <<changes, written, renamed>>]_vars

\* C21: poll_changes has returned False after it found a file with another
\* mtime and the recorded hash
C21_Witness ==
    /\ ws_op = "poll_idle"
    /\ ws_pre
    /\ Synced(WS)
    /\ texts # <<>>

\* a call of sync_out, sync_back or poll_changes
SyncStep ==
    ws_op' \in {"sync_out", "sync_out_raised", "sync_back",
                "poll_idle", "poll_changes", "poll_raised"}

\* the text blocks whose file was deleted from outside, with no file of the
\* directory waiting to be read back into them
FileDeleted(w) ==
    {name \in DOMAIN w.texts :
        /\ FilesOf(w.name_map, name) # {}
        /\ \A f \in FilesOf(w.name_map, name) :
              f \in DOMAIN w.hashes /\ f \notin DOMAIN w.disk
        /\ \A f \in Changed(w) : MapGet(w.name_map, f, f) # name}

Equivalent(w) ==
    /\ \A name \in DOMAIN w.texts :
          \E f \in Listed(w) :
              /\ FilesOf(w.name_map, name) = {f}
              /\ w.disk[f].content = w.texts[name]
    /\ \A f \in Listed(w) :
          \E name \in DOMAIN w.texts :
              /\ MapGet(w.name_map, f, f) = name
              /\ w.disk[f].content = w.texts[name]

\* C23: when poll_changes has run sync_out and sync_back and has returned,
\* the directory is equivalent to the text blocks.
C23_DirectoryEquivalent == ws_op = "poll_changes" => Equivalent(WS)

\* C24: a call of sync_out in which a file operation fails returns to its
\* caller without raising, and every text block that had a file before the
\* call still has one recorded after it.
C24_IOFailureIsSkipped ==
    [][ws_op' \in {"sync_out", "sync_out_raised"} =>
          /\ ws_op' = "sync_out"
          /\ \A name \in DOMAIN texts \cap MapNames(name_map) :
                FilesOf(name_map', name) # {}]_vars

\* what a failed rendezvous with the owner thread raises in the worker: the
\* TimeoutError of the wait, or the exception of the workspace call
SyncFailures == {"timeout", "ws_error"}

\* C25: no CLI session ends with an error that comes from obtaining the
\* workspace, from sync_out or from sync_back (the call raising, or its 10 s
\* wait timing out); the outcome is that of the stream.
C25_SyncFailureDoesNotAbort ==
    backend = "CLI" =>
        \A i \in DOMAIN terminals :
            ~(terminals[i].kind = "on_error" /\ terminals[i].msg \in SyncFailures)

\* the owner thread has run sync_out to its end: the holder of the second
\* rendezvous of a CLI session holds a result
SyncOutDone ==
    Len(holders) >= 2 /\ holders[2].is_set /\ holders[2].error = NoVal

\* the owner thread has run sync_back: the holder of the third rendezvous of
\* a CLI session is set
SyncBackDone == Len(holders) >= 3 /\ holders[3].is_set

\* the worker is at or past the start of the subprocess
AtSubprocess == pc \in {"cli_popen", "cli_read", "cli_event", "cli_fallback"}

\* the terminal notifications the owner thread has run that report the end
\* of a stream: a completion, or the error of a stream without any text
StreamEndReports ==
    {i \in DOMAIN delivered :
        \/ delivered[i].kind = "on_complete"
        \/ delivered[i].kind = "on_error" /\ delivered[i].msg = ErrNoResponse}

\* the terminal notifications the owner thread has run that report an error
\* event of a subprocess that was started
ErrorEventReports ==
    {i \in DOMAIN delivered :
        delivered[i].kind = "on_error" /\ delivered[i].msg = "stream_error"}

\* C26 as stated: in a CLI session sync_out has completed on the owner
\* thread before the subprocess is started, and sync_back has run on the
\* owner thread before the owner thread reports the outcome, for a result
\* event, a stream that ends without one, and an error event alike.
C26_SyncBackOnEveryOutcome ==
    backend = "CLI" =>
        /\ AtSubprocess => SyncOutDone
        /\ StreamEndReports \cup ErrorEventReports # {} => SyncBackDone

\* C26: in a CLI session sync_out has completed on the owner thread before
\* the subprocess is started, and sync_back has run on the owner thread
\* before the owner thread reports the outcome of a result event or of a
\* stream that ended without one.
C26_SyncAroundStream ==
    backend = "CLI" =>
        /\ AtSubprocess => SyncOutDone
        /\ StreamEndReports # {} => SyncBackDone

\* C26: the owner thread has run sync_out and sync_back and has then
\* reported the completion of a CLI session
C26_Witness ==
    /\ backend = "CLI"
    /\ \E i \in DOMAIN delivered : delivered[i].kind = "on_complete"
    /\ SyncOutDone
    /\ SyncBackDone

\* what execute_tool can give back: the handler's result, the payload of an
\* unknown name, the payload of a handler that raised
DispatchPayloads == {"ok", "unknown_tool", "handler_error"}

\* C29: execute_tool never raises on the owner thread (no holder of a tool
\* call stores an exception); every run gives back a payload; the run of a
\* call with an unknown name gives the "unknown tool" payload, which no call
\* of a known name gives, so no handler has run for it.
C29_DispatchNeverRaises ==
    backend = "API" =>
        /\ \A h \in DOMAIN holders : holders[h].error = NoVal
        /\ \A j \in DOMAIN toolRuns : toolRuns[j].kind \in DispatchPayloads
        /\ \A k \in DOMAIN tool_uses : \A j \in DOMAIN toolRuns :
              toolRuns[j].id = tool_uses[k].id =>
                  (tool_uses[k].name = UnknownTool
                      <=> toolRuns[j].kind = "unknown_tool")

\* C29: the owner thread has run a call of an unknown tool and a call whose
\* handler raised
C29_Witness ==
    /\ backend = "API"
    /\ \E j \in DOMAIN toolRuns : toolRuns[j].kind = "unknown_tool"
    /\ \E j \in DOMAIN toolRuns : toolRuns[j].kind = "handler_error"

\* the positions at which old_string is found in the text block
Occurrences(content, old) ==
    {i \in 1..Len(content) : MatchAt(content, old, i)}

\* a call of the edit tool for a text block that exists, with an old_string
EditStep ==
    /\ edit_result'.kind # "none"
    /\ edit_result'.name \in DOMAIN texts
    /\ edit_result'.old_string # <<>>

\* C28: a call of edit_text_block with an old_string found nowhere in the
\* text block gives the "not found" error, with an old_string found at more
\* than one place the "matches N times" error, and both leave the text
\* blocks as they are; with an old_string found at exactly one place that
\* occurrence is replaced and nothing else changes.
C28_EditNeedsUniqueMatch ==
    [][EditStep =>
          LET name == edit_result'.name
              old == edit_result'.old_string
              new == edit_result'.new_string
              at == Occurrences(texts[name], old)
          IN  /\ at = {} =>
                    edit_result'.kind = "not_found" /\ texts' = texts
              /\ Cardinality(at) > 1 =>
                    edit_result'.kind = "matches" /\ texts' = texts
              /\ Cardinality(at) = 1 =>
                    /\ edit_result'.kind = "edited"
                    /\ \A i \in at :
                          texts' = [texts EXCEPT ![name] =
                                       SubSeq(@, 1, i - 1) \o new
                                           \o SubSeq(@, i + Len(old), Len(@))]]_vars

\* the decoder of a thread took a line of the subprocess
LineStep == nevents' = nevents + 1

\* clear_session ran (its one caller is the unregister of the add-on)
ClearSessionStep == nunreg' = nunreg + 1

\* thread w built the command line of its subprocess
InvokeStep(w) == workers[w].pc = "start" /\ workers'[w].pc = "stream"

\* C27: the retained session id changes only to a non-empty id received in a
\* line, or to none in a clear_session call; a non-empty id received is
\* always stored; every invocation of the subprocess resumes with the
\* retained id. Terminal notifications, stop, session ends and clearing of
\* the chat history leave it alone.
C27_SessionIdRetained ==
    [][/\ session_id' # session_id =>
            \/ ClearSessionStep /\ session_id' = ""
            \/ LineStep /\ cur_event'.sid # "" /\ session_id' = cur_event'.sid
       /\ LineStep /\ cur_event'.sid # "" => session_id' = cur_event'.sid
       /\ \A w \in DOMAIN workers :
            InvokeStep(w) => workers'[w].resume = session_id]_vars

\* C27 happens: the second subprocess resumes the id the first one returned,
\* and the chat history was cleared after the second prompt
C27_Witness ==
    /\ Len(workers) = 2
    /\ workers[2].pc = "stream"
    /\ workers[2].resume \in SessionIds
    /\ workers[2].resume = session_id
    /\ conversation_history = <<>>

\* a submission made while a generation is active changes nothing
RejectedSubmission ==
    nsubmit' = nsubmit + 1 /\ is_generating =>
        /\ workers' = workers
        /\ cancel_flag' = cancel_flag
        /\ conversation_history' = conversation_history
        /\ is_generating'

\* C30: a submission made while is_generating is true starts no thread, does
\* not clear the cancellation flag and leaves the history unchanged, and
\* at most one generation thread is running at any time.
C30_OneGenerationAtATime ==
    [][RejectedSubmission]_vars /\ [](Cardinality(Running) <= 1)

\* a sync_out that returned
SyncOutStep == ws_op' = "sync_out"

\* the files mapped before the step whose text block no longer exists and
\* that rename detection does not claim in the step
OrphanedBefore ==
    {f \in MapFiles(name_map) :
        /\ MapGet(name_map, f, f) \notin DOMAIN texts
        /\ f \notin {r[1] : r \in renamed'}}

\* after the step the file is not on disk and has no bookkeeping left
Gone(f) ==
    /\ f \notin DOMAIN disk'
    /\ f \notin MapFiles(name_map')
    /\ f \notin DOMAIN hashes'
    /\ f \notin DOMAIN mtimes'

\* in the step the filename was given to a text block that exists
TakenOver(f) ==
    f \in MapFiles(name_map') /\ MapGet(name_map', f, f) \in DOMAIN texts'

\* the files of the text blocks that exist are on disk after the step
LiveFilesKept ==
    \A f \in MapFiles(name_map) \cap DOMAIN disk :
        MapGet(name_map, f, f) \in DOMAIN texts => f \in DOMAIN disk'

\* C34: after sync_out every mapped file whose text block no longer exists,
\* and that rename detection did not claim, is off the disk and out of the
\* name map, the hashes and the mtimes; a mapped file is one that is mapped
\* to that text block when the loop over the text blocks is done, so a
\* filename the loop gave to a text block that exists is not one.  No entry
\* of a text block that no longer exists is left in the name map, and the
\* files of the text blocks that exist are not deleted.
C34_OrphansRemoved ==
    [][SyncOutStep =>
          /\ \A f \in OrphanedBefore : TakenOver(f) \/ Gone(f)
          /\ \A f \in MapFiles(name_map') :
                MapGet(name_map', f, f) \in DOMAIN texts'
          /\ \A f \in removed' : Gone(f)
          /\ LiveFilesKept]_vars

\* C34 happens: a sync_out has removed the file of a deleted text block
C34_Witness ==
    /\ ws_op = "sync_out"
    /\ removed # {}
    /\ \A f \in removed : f \notin DOMAIN disk /\ f \notin DOMAIN hashes

\* C35: a sync_out that follows a sync_out, with nothing in between, writes,
\* renames and removes no file and leaves the disk, the hashes, the mtimes
\* and the name map as they are.
C35_SyncOutIdempotent ==
    [][ws_op = "sync_out" /\ ws_op' \in {"sync_out", "sync_out_raised"} =>
          /\ ws_op' = "sync_out"
          /\ written' = {} /\ renamed' = {} /\ removed' = {}
          /\ UNCHANGED <<disk, hashes, mtimes, name_map, texts>>]_vars

\* C35 happens: one text block was created and nothing else was done, and
\* the last sync_out wrote nothing, so that it was not the first one
C35_Witness ==
    /\ ws_op = "sync_out"
    /\ nops = 1 /\ ~ext_created
    /\ DOMAIN texts # {}
    /\ written = {} /\ renamed = {} /\ removed = {}
    /\ Synced(WS)

\* no two filenames of the name map have the same text block
OneToOne(m) == \A i, j \in 1..Len(m) : m[i].name = m[j].name => i = j

\* C38: after every sync operation no two filenames of the name map are
\* mapped to the same text block.
C38_NameMapOneToOne ==
    ws_op \in {"sync_out", "sync_out_raised", "sync_back", "poll_idle",
               "poll_changes", "poll_raised"} => OneToOne(name_map)

\* the ids of the tool calls of a message, and of its tool results, in order
ToolUseIds(m) == [i \in 1..Len(ToolUsesOf(m)) |-> ToolUsesOf(m)[i].id]
ToolResultIds(m) ==
    LET rs == SelectSeq(m.content, LAMBDA b : b.type = "tool_result")
    IN  [i \in 1..Len(rs) |-> rs[i].id]

\* every assistant message with tool calls is followed by a user message
\* that answers each of them, in order
WellFormed(msgs) ==
    \A i \in 1..Len(msgs) :
        (msgs[i].role = "assistant" /\ ToolUsesOf(msgs[i]) # <<>>) =>
            /\ i < Len(msgs)
            /\ msgs[i + 1].role = "user"
            /\ ToolResultIds(msgs[i + 1]) = ToolUseIds(msgs[i])

\* C40: the message list an API-style session hands over with its
\* completion is well formed: every tool call of an assistant message is
\* answered by a tool_result with its id in the user message that follows.
C40_CompletedMessagesWellFormed ==
    backend = "API" =>
        \A i \in 1..Len(queue) :
            queue[i].kind = "on_complete" => WellFormed(queue[i].msgs)


(***************************************************************************)
(* C39: every session returns the host to the idle state.                  *)
(***************************************************************************)
\* the host is idle: no generation is active and the streaming text the
\* threads share is empty
HostIdle == ~is_generating /\ streaming_text = <<>>

QueuedTickets == [i \in 1..Len(queue) |-> queue[i].id.n]

\* C36: the callback runs at most 50 units per tick (processed counts the
\* units run since the tick began); the units run so far followed by the
\* units still queued are all the units enqueued, in the order of their
\* enqueue; and every unit enqueued is run later.
C36_BoundedBatchNothingDropped ==
    /\ [](processed <= 50)
    /\ [][Len(ran') > Len(ran) =>
             /\ tick_pc = "drain"
             /\ Len(ran') = Len(ran) + 1
             /\ processed' = processed + 1]_vars
    /\ [][tick_pc = "idle" /\ tick_pc' = "drain" => processed' = 0]_vars
    /\ [](ran \o QueuedTickets = [t \in 1..nenq |-> t])
    /\ \A t \in 1..(BatchLimit + 1 + MaxWork) :
          (nenq >= t) ~> (Len(ran) >= t /\ ran[t] = t)

\* a tick ended with a full batch and units left in the queue, and the
\* next tick has just run the first of them
C36_Witness ==
    /\ tick_pc = "drain"
    /\ processed = 1
    /\ Len(ran) = BatchLimit + 1
    /\ ran[Len(ran)] = BatchLimit + 1
    /\ queue # <<>>


(***************************************************************************)
(* C37: the workspace poll is skipped while a generation is active.        *)
(***************************************************************************)
\* the callback that ends in this step calls poll_changes
TimerPollStep == tick_pc = "drain" /\ tick_pc' = "idle" /\ polled' = "polled"

\* a sync of the session is still queued
SyncQueued ==
    \E i \in DOMAIN queue :
        queue[i].kind = "wrapper" /\ queue[i].fn \in {"sync_out", "sync_back"}

\* C37: a callback that calls poll_changes does so with is_generating
\* false; at least 20 callbacks have ended since the previous call (or
\* since construction), this one included; and no session is in progress
\* then: none was started, or the terminal notification of the one started
\* has run and none of its syncs is still queued.
C37_PollSkippedWhileGenerating ==
    [][TimerPollStep =>
          /\ ~is_generating
          /\ since_poll + 1 >= 20
          /\ sessions = 0 \/ delivered # <<>>
          /\ ~SyncQueued]_vars

\* the 20th callback came while a CLI session was generating, and the
\* poll was skipped
C37_Witness ==
    /\ backend = "CLI"
    /\ is_generating
    /\ tick_pc = "idle"
    /\ polled = "skipped"
    /\ poll_tick = 0


(***************************************************************************)
(* C33: cancellation in the decoder of the subprocess's output.            *)
(***************************************************************************)
\* C33: once a line has been received with the flag set, no further event
\* is yielded; the first call made on the subprocess is then terminate();
\* kill() is only called on a subprocess that is still running when a wait
\* has timed out; and when the generator has ended the subprocess is no
\* longer running.
C33_CancelBetweenLines ==
    /\ [](flagged # -1 => Len(yielded) = flagged)
    /\ [](flagged # -1 /\ dec_pc # "read" => signals # <<>> /\ signals[1] = "terminate")
    /\ [][Len(signals') > Len(signals) /\ signals'[Len(signals')] = "kill" =>
             /\ process = "running"
             /\ dec_pc \in {"grace", "closing", "cleanup"}]_vars
    /\ [](dec_pc = "ended" => process # "running")

\* a line came with the flag set after an event had been yielded; the
\* subprocess ignored terminate() for the grace period and was killed
C33_Witness ==
    /\ dec_pc = "ended"
    /\ flagged = 1
    /\ yielded = <<"text">>
    /\ signals = <<"terminate", "kill">>
    /\ process = "killed"

(***************************************************************************)
(* C31: the tool-call-complete event of the event-stream decoder.          *)
(***************************************************************************)
RECURSIVE Concat(_)
\* the concatenation of strings, in order
Concat(strs) == IF strs = <<>> THEN <<>> ELSE Head(strs) \o Concat(Tail(strs))

\* the generator has just received a line
Received == nlines' = nlines + 1

\* the event yielded in this step, when exactly one is
LastYielded == sse'.out[Len(sse'.out)]

YieldedOne == Len(sse'.out) = Len(sse.out) + 1 /\ SubSeq(sse'.out, 1, Len(sse.out)) = sse.out

\* C31: a content-block-stop for an index whose tool block is open yields
\* one event, tool_use_complete, with that index, the id and name of the
\* block's start and as input the parse of the concatenated deltas sent for
\* the index since that start: the empty object for no input, the raw string
\* under "_raw" for input that is not JSON; a stop for any other index
\* yields a plain content_block_stop; and no other step yields a
\* tool_use_complete.
C31_ToolUseComplete ==
    [][Received =>
         /\ (sse_line'.kind = "stop" /\ open_blocks[sse_line'.index].started) =>
               \E b \in {open_blocks[sse_line'.index]} :
               \E str \in {Concat(b.deltas)} :
                  /\ YieldedOne
                  /\ LastYielded.type = "tool_use_complete"
                  /\ LastYielded.index = sse_line'.index
                  /\ LastYielded.id = b.id
                  /\ LastYielded.name = b.name
                  /\ str = <<>> => LastYielded.input = [kind |-> "object", raw |-> <<>>]
                  /\ str = <<"{", "}">> => LastYielded.input = [kind |-> "object", raw |-> <<>>]
                  /\ str \notin {<<>>, <<"{", "}">>} =>
                        LastYielded.input = [kind |-> "_raw", raw |-> str]
         /\ (sse_line'.kind = "stop" /\ ~open_blocks[sse_line'.index].started) =>
               /\ YieldedOne
               /\ LastYielded.type = "content_block_stop"
               /\ LastYielded.index = sse_line'.index
         /\ (sse'.out # sse.out /\ LastYielded.type = "tool_use_complete") =>
               sse_line'.kind = "stop" /\ open_blocks[sse_line'.index].started]_vars

\* two tool blocks are open, a delta was sent for index 1, and the stop of
\* index 0 has yielded its tool call with the empty object as input
C31_Witness ==
    /\ nlines = 4
    /\ sse_line.kind = "stop"
    /\ sse_line.index = 0
    /\ open_blocks[1].started
    /\ open_blocks[1].deltas # <<>>
    /\ Len(sse.out) = 4
    /\ sse.out[4].type = "tool_use_complete"
    /\ sse.out[4].index = 0
    /\ sse.out[4].input = EmptyObject

(***************************************************************************)
(* C32: malformed data lines are skipped.                                  *)
(***************************************************************************)
\* the event types a line of each kind is decoded to
EventTypes(kind) ==
    CASE kind = "start_tool" -> {"tool_use_start"}
      [] kind = "text_delta" -> {"text_delta"}
      [] kind = "input_json_delta" -> {"tool_input_delta"}
      [] kind = "stop" -> {"tool_use_complete", "content_block_stop"}
      [] kind = "message_delta" -> {"message_complete"}
      [] OTHER -> {}

\* C32: the generator fed the stream with its malformed data lines has
\* yielded the same events, and is at the same position, as the generator
\* fed the stream without them; and the events are yielded in arrival
\* order: a step only ever appends, to what was yielded before, an event of
\* the line just received.
C32_MalformedLinesSkipped ==
    /\ [](sse.out = sse2.out /\ sse.pc = sse2.pc)
    /\ [][sse'.out # sse.out =>
             /\ Received
             /\ YieldedOne
             /\ LastYielded.type \in EventTypes(sse_line'.kind)]_vars

\* a malformed data line came while a tool block was open and its first
\* delta had arrived; the generator goes on reading
C32_Witness ==
    /\ sse_line.kind = "malformed"
    /\ sse.pc = "read"
    /\ Len(sse.out) = 2
    /\ sse.tool_blocks[0].input_json # <<>>

====
